---- MODULE Spec2Model ----
(***************************************************************************)
(* A model of the void-indexing retrieval core: the sparse TF-IDF index,   *)
(* the in-memory vector store, the embedding provider registry, the        *)
(* VoidIndexing orchestrator with its cooperative cancellation, the        *)
(* context key service, the cache strategy, the prompt builder, the local  *)
(* context gatherer, the cancellation token source, the performance        *)
(* utilities (LazyValue, ParallelExecutor, BatchExecutor) and CodeIndex.    *)
(*                                                                         *)
(* Each component has its own next-state relation and specification over   *)
(* the one set of variables; a component's actions leave the variables of  *)
(* the other components unchanged.                                         *)
(***************************************************************************)
EXTENDS Integers, Sequences, FiniteSets, TLC

VARIABLES
    \* TfIdfCalculator (src/unnamed/part_002)
    tfDocuments,        \* documents: Map key -> {chunks}, in insertion order
    chunkCount,         \* chunkCount
    chunkOccurrences,   \* chunkOccurrences: Map term -> number of chunks
    tfDeleted           \* history: the keys deleteDocument was called for
                        \* since the last updateDocuments

VARIABLES
    \* InMemoryStorageAdapter (src/void-indexing/src/storage/storageAdapter.ts)
    storage,            \* documents: Map id -> {content, embedding, metadata}
    stResult,           \* the last adapter call and what it returned
    stLast,             \* history: per id, what the most recent storeDocument
                        \* stored if no deleteDocument or clear came after it
    stOrder             \* history: the ids present, in the order each was
                        \* first stored since it was last absent

VARIABLES
    \* EmbeddingsService and VoidIndexing
    \* (src/void-indexing/src/context/localContext.ts, voidIndexing.ts)
    providers,          \* EmbeddingsService.providers: the registered ids
    defaultProviderId,  \* VoidIndexing.defaultProviderId
    astStrategy,        \* chunkingStrategies.get(AST): Null, or its options
    semDocuments,       \* SemanticSearchEngine.documents
    clock,              \* what new Date() reads: it ticks at each indexing
                        \* call that gets past its first check
    token,              \* isCancellationRequested of the running call's token
    call,               \* the asynchronous call in progress and where it waits
    outcome,            \* the last completed operation and what it returned
    written,            \* history: the ids the indexing call in progress, or
                        \* the last one, handed to storeDocument, in order
    indexed,            \* history: the ids of the chunks of the indexFile
                        \* calls that returned their chunks with the token
                        \* not cancelled
    history             \* history: one entry per indexFile call that got
                        \* past its first check and ended, in order

VARIABLES
    \* ContextKeyService and its Context objects
    \* (src/void-indexing/src/context/localContext.ts)
    lastContextId,      \* _lastContextId
    contexts,           \* _contexts: the ids the map holds
    contextParent,      \* per Context object ever created, the id of its
                        \* _parent, 0 for null
    contextValue,       \* per Context object ever created, its _value
    contextKeys,        \* the ContextKey objects createKey returned
    ctxResult           \* the last call on the service, a context or a key
                        \* and what it returned

VARIABLES
    \* CacheStrategy (src/unnamed/part_003)
    cacheConfig,        \* policy, and whether a persistent backend was given
    cacheMetadata,      \* metadata: Map key -> ContextData, in insertion order
    shortTermCache,     \* the storage of shortTermCache
    persistentCache,    \* the storage of persistentCache, when there is one
    cacheNow,           \* what Date.now() reads
    cacheResult,        \* the last call on the cache and what it returned
    cacheSetAt          \* for each tracked key, the time of the set that stored it

VARIABLES
    \* PromptBuilder (src/void-indexing/src/utils/cancellation.ts)
    promptTemplate,     \* this.template
    promptResult        \* the last buildPrompt call: its context and result

VARIABLES
    \* The components that keep no state between calls
    lastCall            \* the call made on one of them: its name, what it
                        \* was given and what it returned

VARIABLES
    \* LocalContextGatherer (src/void-indexing/src/context/localContext.ts)
    gathererOptions,    \* this.options
    snippetCache,       \* snippetCache: Map cache key -> snippets
    gathered            \* the last call on the gatherer and what it returned

VARIABLES
    \* CancellationTokenSource (src/void-indexing/src/utils/cancellation.ts)
    sourceToken,        \* per source, its _token
    tokenIsCancelled,   \* per source, the _isCancelled of its MutableToken
    obtained,           \* history: per source, the tokens read from it
    cancelCalled        \* history: per source, whether cancel() was called

VARIABLES
    \* LazyValue (src/void-indexing/src/performance/optimizations.ts)
    lazyValue,          \* this.value
    lazyLoading,        \* this.loading: Null, or the promise it holds
    lazyLoads,          \* the promises loadFn returned, in order: pending,
                        \* or what each settled with
    lazyCalls,          \* per get() or load() call, where it stands and
                        \* what its promise settled with
    lazyInvalidated     \* history: whether invalidate() was called

VARIABLES
    \* ParallelExecutor (src/void-indexing/src/performance/optimizations.ts)
    peConcurrency,      \* this.concurrency, Null before the constructor
    peRunning,          \* this.running
    peQueue,            \* this.queue: the tasks whose wrappers wait
    peTasks,            \* per task, how far it has come
    peSubmitted,        \* history: the tasks in the order of their execute
    peStarted           \* history: the tasks in the order they were started

VARIABLES
    \* BatchExecutor (src/void-indexing/src/performance/optimizations.ts)
    beMaxBatchSize,     \* this.maxBatchSize, Null before the constructor
    beBatch,            \* this.batch
    bePromises,         \* this.promises: the promises of the queued items
    beTimeout,          \* whether this.timeout holds a timer
    beQueued,           \* history: the items in the order of their queue calls
    beFlushed,          \* history: the batches handed to batchFn, with their
                        \* promises and what batchFn's promise settled with
    beSettlements       \* history: per promise, what it was settled with,
                        \* once for each resolve or reject

VARIABLES
    \* CodeIndex (src/void-indexing/src/storage/storageAdapter.ts)
    ciDocumentIndex,    \* documentIndex: Map id -> metadata
    ciTermIndex,        \* termIndex: Map term -> TermFrequency
    ciEmbeddings,       \* embeddings: Map id -> vector
    ciAstIndex,         \* astIndex: Map id -> AST
    ciSymbolIndex,      \* symbolIndex: Map id -> symbols
    ciTfIdf,            \* tfIdfCalculator, as one value
    ciLast              \* the last call on the index and what it was given

varsTfIdf == <<tfDocuments, chunkCount, chunkOccurrences, tfDeleted>>

varsStorage == <<storage, stResult, stLast, stOrder>>

varsIndexing == <<providers, defaultProviderId, astStrategy, semDocuments,
                  clock, token, call, outcome, written, indexed, history>>

varsContext == <<lastContextId, contexts, contextParent, contextValue,
                 contextKeys, ctxResult>>

\* The components other than the index, the store and the orchestrator.
varsCache == <<cacheConfig, cacheMetadata, shortTermCache, persistentCache,
               cacheNow, cacheResult, cacheSetAt>>

varsPrompt == <<promptTemplate, promptResult>>

varsDirect == <<lastCall>>

varsGatherer == <<gathererOptions, snippetCache, gathered>>

varsSource == <<sourceToken, tokenIsCancelled, obtained, cancelCalled>>

\* The token sources and the performance utilities.
varsLazy == <<lazyValue, lazyLoading, lazyLoads, lazyCalls, lazyInvalidated>>

varsExecutor == <<peConcurrency, peRunning, peQueue, peTasks, peSubmitted,
                  peStarted>>

varsBatch == <<beMaxBatchSize, beBatch, bePromises, beTimeout, beQueued,
               beFlushed, beSettlements>>

varsCodeIndex == <<ciDocumentIndex, ciTermIndex, ciEmbeddings, ciAstIndex,
                   ciSymbolIndex, ciTfIdf, ciLast>>

varsLate == <<varsSource, varsLazy, varsExecutor, varsBatch, varsCodeIndex>>

varsRest == <<varsContext, varsCache, varsPrompt, varsDirect, varsGatherer,
              varsLate>>

\* The components modelled before the token sources.
varsEarly == <<varsTfIdf, varsStorage, varsIndexing, varsContext, varsCache,
               varsPrompt, varsDirect, varsGatherer>>

varsButSource == <<varsEarly, varsLazy, varsExecutor, varsBatch, varsCodeIndex>>

varsButLazy == <<varsEarly, varsSource, varsExecutor, varsBatch, varsCodeIndex>>

varsButExecutor == <<varsEarly, varsSource, varsLazy, varsBatch, varsCodeIndex>>

varsButBatch == <<varsEarly, varsSource, varsLazy, varsExecutor, varsCodeIndex>>

varsButCodeIndex == <<varsEarly, varsSource, varsLazy, varsExecutor, varsBatch>>

vars == <<varsTfIdf, varsStorage, varsIndexing, varsRest>>

----------------------------------------------------------------------------
(* Bounds of the model.                                                    *)

\* Longest list of documents handed to one updateDocuments call.
MaxDocs == 2
\* Cap on chunkCount, which keeps the state space finite.
MaxCount == 4
\* Number of record ids of the vector store.
NumIds == 2
\* Largest limit (topK) a similarity query asks for.
MaxLimit == 2
\* Cap on the indexing calls of one run.
MaxCalls == 1

\* Most indexFile calls that get past their first check when the same file
\* is indexed again.
MaxReindex == 2
\* chunkingOptions.maxChunkSize the orchestrator is configured with.
MaxChunkSize == 2

----------------------------------------------------------------------------
(* JavaScript Map: entries in insertion order.  set() on a present key     *)
(* keeps the entry's position, delete() followed by set() moves it last.   *)

Range(s) == {s[i] : i \in 1..Len(s)}

MapKeys(m) == {m[i].key : i \in 1..Len(m)}

MapHas(m, k) == k \in MapKeys(m)

MapGet(m, k) == (CHOOSE e \in Range(m) : e.key = k).value

MapSet(m, k, v) ==
    IF MapHas(m, k)
    THEN [i \in 1..Len(m) |->
            IF m[i].key = k THEN [key |-> k, value |-> v] ELSE m[i]]
    ELSE Append(m, [key |-> k, value |-> v])

MapDelete(m, k) == SelectSeq(m, LAMBDA e : e.key # k)

Abs(n) == IF n < 0 THEN -n ELSE n

RECURSIVE Gcd(_, _)
Gcd(a, b) == IF b = 0 THEN a ELSE Gcd(b, a % b)

----------------------------------------------------------------------------
(* TfIdfCalculator.                                                        *)
(*                                                                         *)
(* A text is a sequence of words, a word a sequence of lower-case parts of *)
(* at least three letters: <<"cat">> is the word cat, <<"cat", "dog">> the *)
(* camel-case word catDog.  Words the tokenizer's pattern drops (shorter   *)
(* than three characters) are not part of a text.                          *)

RECURSIVE JoinParts(_)
JoinParts(w) == IF w = <<>> THEN "" ELSE Head(w) \o JoinParts(Tail(w))

\* The terms one word yields: the lower-cased word, then its camel-case
\* parts when there is more than one.
WordTerms(w) == <<JoinParts(w)>> \o (IF Len(w) > 1 THEN w ELSE <<>>)

RECURSIVE splitTerms(_)
splitTerms(input) ==
    IF input = <<>> THEN <<>>
    ELSE WordTerms(Head(input)) \o splitTerms(Tail(input))

countMapFrom(values) ==
    [v \in Range(values) |->
        Cardinality({i \in 1..Len(values) : values[i] = v})]

termFrequencies(input) == countMapFrom(splitTerms(input))

\* The calculator's state as one value.
Calc == [documents |-> tfDocuments,
         chunkCount |-> chunkCount,
         chunkOccurrences |-> chunkOccurrences]

\* chunkOccurrences.set(term, (chunkOccurrences.get(term) ?? 0) + 1)
OccIncrement(occ, term) ==
    [t \in DOMAIN occ \cup {term} |->
        IF t = term
        THEN (IF term \in DOMAIN occ THEN occ[term] ELSE 0) + 1
        ELSE occ[t]]

\* One step of deleteDocument's inner loop: a term that drops to zero or
\* below is removed from the map, a term not in the map is skipped.
OccDecrement(occ, term) ==
    IF term \notin DOMAIN occ THEN occ
    ELSE IF occ[term] - 1 <= 0
         THEN [t \in DOMAIN occ \ {term} |-> occ[t]]
         ELSE [occ EXCEPT ![term] = occ[term] - 1]

\* Folds f over the members of a finite set; used only where the order of
\* the members does not change the result.
RECURSIVE FoldSet(_, _, _)
FoldSet(f(_, _), acc, S) ==
    IF S = {} THEN acc
    ELSE LET x == CHOOSE y \in S : TRUE
         IN FoldSet(f, f(acc, x), S \ {x})

RECURSIVE FoldSeq(_, _, _)
FoldSeq(f(_, _), acc, s) ==
    IF s = <<>> THEN acc ELSE FoldSeq(f, f(acc, Head(s)), Tail(s))

\* deleteDocument(key)
deleteDocument(c, key) ==
    IF ~MapHas(c.documents, key) THEN c
    ELSE LET doc == MapGet(c.documents, key)
             DropChunk(occ, chunk) ==
                 FoldSet(OccDecrement, occ, DOMAIN chunk.tf)
         IN [documents |-> MapDelete(c.documents, key),
             chunkCount |-> c.chunkCount - Len(doc.chunks),
             chunkOccurrences |->
                 FoldSeq(DropChunk, c.chunkOccurrences, doc.chunks)]

\* The second loop of updateDocuments, for one document of the list.
InsertDocument(c, doc) ==
    LET chunks == [i \in 1..Len(doc.textChunks) |->
                      [text |-> doc.textChunks[i],
                       tf |-> termFrequencies(doc.textChunks[i])]]
        AddChunk(occ, chunk) == FoldSet(OccIncrement, occ, DOMAIN chunk.tf)
    IN [documents |-> MapSet(c.documents, doc.key, [chunks |-> chunks]),
        chunkCount |-> c.chunkCount + Len(chunks),
        chunkOccurrences |-> FoldSeq(AddChunk, c.chunkOccurrences, chunks)]

\* updateDocuments(documents): delete every key of the list, then insert
\* every document of the list.
updateDocuments(c, docs) ==
    LET DeleteKey(cc, doc) == deleteDocument(cc, doc.key)
    IN FoldSeq(InsertDocument, FoldSeq(DeleteKey, c, docs), docs)

\* computeIdf(term): Math.log((chunkCount + 1) / chunkOccurrences), kept as
\* the reduced fraction under the logarithm; 1/1 is the idf 0.
computeIdf(c, term) ==
    LET occurrences == IF term \in DOMAIN c.chunkOccurrences
                       THEN c.chunkOccurrences[term] ELSE 0
        g == Gcd(Abs(c.chunkCount + 1), occurrences)
    IN IF occurrences > 0
       THEN [num |-> (c.chunkCount + 1) \div g, den |-> occurrences \div g]
       ELSE [num |-> 1, den |-> 1]

\* idf > 0: the logarithm of a fraction above 1.
IdfPositive(idf) == idf.num > idf.den

\* computeTfidf(termFrequencies): a word's weight occurrences * idf, for the
\* words of positive idf.
computeTfidf(c, tf) ==
    [word \in {w \in DOMAIN tf : IdfPositive(computeIdf(c, w))} |->
        [occurrences |-> tf[word], idf |-> computeIdf(c, word)]]

computeEmbedding(c, input) == computeTfidf(c, termFrequencies(input))

\* computeSimilarityScore(chunk, queryEmbedding, idfCache): the sum of
\* chunkTf * idf * occurrences * idf over the query's terms the chunk has,
\* kept as the coefficient of each idf squared.  The cache holds what
\* computeIdf returns.
computeSimilarityScore(c, chunk, queryEmbedding) ==
    LET terms == {t \in DOMAIN queryEmbedding : t \in DOMAIN chunk.tf}
        idfs == {computeIdf(c, t) : t \in terms}
        Coefficient(idf) ==
            LET Add(acc, t) == acc + chunk.tf[t] * queryEmbedding[t].occurrences
            IN FoldSet(Add, 0, {t \in terms : computeIdf(c, t) = idf})
    IN [idf \in idfs |-> Coefficient(idf)]

\* score > 0: every term of the sum is a positive multiple of a squared
\* non-zero idf.
ScorePositive(score) == DOMAIN score # {}

\* calculateScores(query, token).  The call is synchronous: the token reads
\* the same at every document.
calculateScores(c, query, cancelled) ==
    LET embedding == computeEmbedding(c, query)
        ChunkScores(key, chunks) ==
            SelectSeq([i \in 1..Len(chunks) |->
                          [key |-> key,
                           score |-> computeSimilarityScore(c, chunks[i], embedding)]],
                      LAMBDA s : ScorePositive(s.score))
        DocScores(acc, e) == acc \o ChunkScores(e.key, e.value.chunks)
    IN IF cancelled /\ Len(c.documents) > 0 THEN <<>>
       ELSE FoldSeq(DocScores, <<>>, c.documents)

----------------------------------------------------------------------------
(* The documents and lists the calculator is driven with.                  *)

Keys == {"a", "b"}

TextChunkLists ==
    { <<>>,
      << <<<<"cat">>, <<"dog">>>> >>,
      << <<<<"cat">>, <<"cat">>>>, <<<<"fox">>>> >>,
      << <<<<"cat", "dog">>>>, <<>> >> }

TfIdfDocuments == [key : Keys, textChunks : TextChunkLists]

SeqsUpTo(S, n) == UNION {[1..k -> S] : k \in 0..n}

DocumentLists == SeqsUpTo(TfIdfDocuments, MaxDocs)

TfIdfInit ==
    /\ tfDocuments = <<>>
    /\ chunkCount = 0
    /\ chunkOccurrences = <<>>
    /\ tfDeleted = {}

SetCalc(c) ==
    /\ tfDocuments' = c.documents
    /\ chunkCount' = c.chunkCount
    /\ chunkOccurrences' = c.chunkOccurrences

UpdateDocuments ==
    \E docs \in DocumentLists :
        LET c == updateDocuments(Calc, docs)
        IN /\ c.chunkCount <= MaxCount
           /\ SetCalc(c)
           /\ tfDeleted' = {}

DeleteDocument ==
    \E key \in Keys :
        /\ SetCalc(deleteDocument(Calc, key))
        /\ tfDeleted' = tfDeleted \cup {key}

NextTfIdf ==
    \/ UpdateDocuments /\ UNCHANGED <<varsRest, varsStorage, varsIndexing>>
    \/ DeleteDocument /\ UNCHANGED <<varsRest, varsStorage, varsIndexing>>

----------------------------------------------------------------------------
(* InMemoryStorageAdapter.                                                 *)
(*                                                                         *)
(* A similarity score is kept exactly, as the reduced fraction num/den     *)
(* that stands for sign(num) * sqrt(|num| / den): the cosine               *)
(* dot / (sqrt(normA) * sqrt(normB)) is [num |-> sign(dot) * dot^2,        *)
(* den |-> normA * normB].  The order of two scores is the order of their  *)
(* fractions.  Rounding of IEEE doubles is not modelled.                   *)

Score(num, den) ==
    LET g == Gcd(Abs(num), den)
    IN [num |-> num \div g, den |-> den \div g]

ScoreGeq(a, b) == a.num * b.den >= b.num * a.den

RECURSIVE SumTo(_, _)
SumTo(f, n) == IF n = 0 THEN 0 ELSE f[n] + SumTo(f, n - 1)

\* The error cosineSimilarity throws, as a value.
DimensionMismatch == [error |-> "Vectors must have the same dimensions"]

IsError(v) == "error" \in DOMAIN v

\* cosineSimilarity without its guard on the lengths: the components the
\* shorter vector lacks count as 0.
cosineSimilarityUnguarded(a, b) ==
    LET n == IF Len(a) < Len(b) THEN Len(a) ELSE Len(b)
        dotProduct == SumTo([i \in 1..n |-> a[i] * b[i]], n)
        normA == SumTo([i \in 1..Len(a) |-> a[i] * a[i]], Len(a))
        normB == SumTo([i \in 1..Len(b) |-> b[i] * b[i]], Len(b))
    IN IF normA = 0 \/ normB = 0 THEN Score(0, 1)
       ELSE Score((IF dotProduct < 0 THEN -1 ELSE 1) * dotProduct * dotProduct,
                  normA * normB)

\* cosineSimilarity(a, b): the error value when the lengths differ.
cosineSimilarity(a, b) ==
    IF Len(a) # Len(b) THEN DimensionMismatch
    ELSE LET dotProduct == SumTo([i \in 1..Len(a) |-> a[i] * b[i]], Len(a))
             normA == SumTo([i \in 1..Len(a) |-> a[i] * a[i]], Len(a))
             normB == SumTo([i \in 1..Len(b) |-> b[i] * b[i]], Len(b))
         IN IF normA = 0 \/ normB = 0 THEN Score(0, 1)
            ELSE Score((IF dotProduct < 0 THEN -1 ELSE 1)
                           * dotProduct * dotProduct,
                       normA * normB)

\* Array.prototype.sort((a, b) => b.score - a.score): descending by score,
\* stable (ECMAScript 2019), so equal scores keep their order.
\* An unstable sort: a record goes before the records of equal score.
RECURSIVE InsertByScoreUnstable(_, _)
InsertByScoreUnstable(sorted, r) ==
    IF sorted = <<>> THEN <<r>>
    ELSE IF ~ScoreGeq(r.score, Head(sorted).score)
         THEN <<Head(sorted)>> \o InsertByScoreUnstable(Tail(sorted), r)
         ELSE <<r>> \o sorted

RECURSIVE InsertByScore(_, _)
InsertByScore(sorted, r) ==
    IF sorted = <<>> THEN <<r>>
    ELSE IF ScoreGeq(Head(sorted).score, r.score)
         THEN <<Head(sorted)>> \o InsertByScore(Tail(sorted), r)
         ELSE <<r>> \o sorted

SortByScore(rs) == FoldSeq(InsertByScore, <<>>, rs)

\* Array.prototype.slice(0, limit) for limit >= 0.
Slice(s, limit) == SubSeq(s, 1, IF limit < Len(s) THEN limit ELSE Len(s))

\* storeDocument that keeps the record an id already has.
storeDocumentKeepFirst(docs, id, content, embedding, metadata) ==
    IF MapHas(docs, id) THEN docs
    ELSE Append(docs, [key |-> id,
                       value |-> [content |-> content, embedding |-> embedding,
                                  metadata |-> metadata]])

storeDocument(docs, id, content, embedding, metadata) ==
    MapSet(docs, id,
           [content |-> content, embedding |-> embedding, metadata |-> metadata])

\* null, as a value that compares with records.
Null == [null |-> TRUE]

\* retrieveDocument(id): this.documents.get(id) || null

retrieveDocument(docs, id) ==
    IF MapHas(docs, id) THEN MapGet(docs, id) ELSE Null

\* findSimilar(embedding, limit, threshold): the list of results, or the
\* error cosineSimilarity throws while the records are mapped.
findSimilar(docs, embedding, limit, threshold) ==
    LET scored == [i \in 1..Len(docs) |->
                      [id |-> docs[i].key,
                       content |-> docs[i].value.content,
                       metadata |-> docs[i].value.metadata,
                       score |-> cosineSimilarity(embedding,
                                                  docs[i].value.embedding)]]
    IN IF \E i \in 1..Len(scored) : IsError(scored[i].score)
       THEN DimensionMismatch
       ELSE [value |->
                Slice(SortByScore(
                          SelectSeq(scored,
                                    LAMBDA r : ScoreGeq(r.score, threshold))),
                      limit)]

StoreIds == 1..NumIds

\* The records the store is driven with: embeddings that tie, that differ,
\* of zero magnitude and of another dimension.
StoreRecords ==
    { [content |-> "alpha", embedding |-> <<1, 0>>, metadata |-> [startLine |-> 0]],
      [content |-> "beta",  embedding |-> <<2, 0>>, metadata |-> [startLine |-> 1]],
      [content |-> "gamma", embedding |-> <<9, 1>>, metadata |-> [startLine |-> 0]],
      [content |-> "delta", embedding |-> <<0, 0>>, metadata |-> [startLine |-> 0]],
      [content |-> "alpha", embedding |-> <<1>>,    metadata |-> [startLine |-> 0]] }

QueryEmbeddings == { <<1, 0>>, <<-1, 0>>, <<0, 0>>, <<1>> }

\* 0.7 (the default), 0 and -1.
Thresholds == { Score(49, 100), Score(0, 1), Score(-1, 1) }

StorageInit ==
    /\ storage = <<>>
    /\ stResult = [op |-> "none"]
    /\ stLast = [id \in StoreIds |-> Null]
    /\ stOrder = <<>>

StoreDocument ==
    \E id \in StoreIds, r \in StoreRecords :
        /\ storage' = storeDocument(storage, id, r.content, r.embedding, r.metadata)
        /\ stResult' = [op |-> "storeDocument", id |-> id]
        /\ stLast' = [stLast EXCEPT ![id] = r]
        /\ stOrder' = IF id \in Range(stOrder) THEN stOrder
                      ELSE Append(stOrder, id)

RetrieveDocument ==
    \E id \in StoreIds :
        /\ stResult' = [op |-> "retrieveDocument", id |-> id,
                        value |-> retrieveDocument(storage, id)]
        /\ UNCHANGED <<storage, stLast, stOrder>>

FindSimilar ==
    \E q \in QueryEmbeddings, limit \in 0..MaxLimit, threshold \in Thresholds :
        /\ stResult' = [op |-> "findSimilar", embedding |-> q, limit |-> limit,
                        threshold |-> threshold,
                        result |-> findSimilar(storage, q, limit, threshold)]
        /\ UNCHANGED <<storage, stLast, stOrder>>

\* deleteDocument(id): Map.delete's result, true when the id was present.
DeleteStored ==
    \E id \in StoreIds :
        /\ storage' = MapDelete(storage, id)
        /\ stResult' = [op |-> "deleteDocument", id |-> id,
                        value |-> MapHas(storage, id)]
        /\ stLast' = [stLast EXCEPT ![id] = Null]
        /\ stOrder' = SelectSeq(stOrder, LAMBDA x : x # id)

Clear ==
    /\ storage' = <<>>
    /\ stResult' = [op |-> "clear"]
    /\ stLast' = [id \in StoreIds |-> Null]
    /\ stOrder' = <<>>

NextStorage ==
    \/ StoreDocument /\ UNCHANGED <<varsRest, varsTfIdf, varsIndexing>>
    \/ RetrieveDocument /\ UNCHANGED <<varsRest, varsTfIdf, varsIndexing>>
    \/ FindSimilar /\ UNCHANGED <<varsRest, varsTfIdf, varsIndexing>>
    \/ DeleteStored /\ UNCHANGED <<varsRest, varsTfIdf, varsIndexing>>
    \/ Clear /\ UNCHANGED <<varsRest, varsTfIdf, varsIndexing>>

----------------------------------------------------------------------------
(* Chunking strategies.                                                    *)
(*                                                                         *)
(* A string is a sequence of characters; the characters of the model are   *)
(* two letters, the full stop, the space and the newline.                  *)

Chars == {"a", "b", ".", " ", "\n"}

charCodeAt(c) ==
    CASE c = "a" -> 97 [] c = "b" -> 98 [] c = "." -> 46
      [] c = " " -> 32 [] c = "\n" -> 10

IsSpace(c) == c \in {" ", "\n"}

\* The characters the default delimiter's lookbehind accepts: . ? ! \n
IsTerminator(c) == c \in {".", "?", "!", "\n"}

\* String.prototype.trim().length > 0
HasText(str) == \E i \in 1..Len(str) : ~IsSpace(str[i])

\* The hash of generateChunkId is a 32-bit integer, kept as two 16-bit
\* halves [hi, lo] of its two's-complement bits.  One round of the loop,
\* hash = ((hash << 5) - hash) + char; hash = hash & hash, is 31 * hash +
\* char modulo 2^32.
HashStep(hash, char) ==
    LET lo == hash.lo * 31 + char
        hi == hash.hi * 31 + (lo \div 65536)
    IN [hi |-> hi % 65536, lo |-> lo % 65536]

RECURSIVE HashFrom(_, _, _)
HashFrom(content, i, hash) ==
    IF i > Len(content) THEN hash
    ELSE HashFrom(content, i + 1, HashStep(hash, charCodeAt(content[i])))

\* Math.abs(hash): the magnitude, again as two halves.
AbsHash(hash) ==
    IF hash.hi < 32768 THEN hash
    ELSE [hi |-> 65536 - hash.hi - (IF hash.lo = 0 THEN 0 ELSE 1),
          lo |-> (65536 - hash.lo) % 65536]

\* An id that also carries the time the file was indexed at.
generateChunkIdDated(content, index, metadata) ==
    [prefix |-> IF "type" \in DOMAIN metadata THEN metadata.type ELSE "chunk",
     fileInfo |-> IF "fileName" \in DOMAIN metadata /\ metadata.fileName # <<>>
                  THEN metadata.fileName ELSE <<>>,
     index |-> index,
     indexedAt |-> IF "indexedAt" \in DOMAIN metadata THEN metadata.indexedAt ELSE 0,
     hash |-> 0]

\* generateChunkId(content, index, metadata): the parts of the id string
\* `${prefix}${fileInfo}-${index}-${Math.abs(hash).toString(16)}`.
generateChunkId(content, index, metadata) ==
    [prefix |-> IF "type" \in DOMAIN metadata THEN metadata.type ELSE "chunk",
     fileInfo |-> IF "fileName" \in DOMAIN metadata /\ metadata.fileName # <<>>
                  THEN metadata.fileName ELSE <<>>,
     index |-> index,
     hash |-> AbsHash(HashFrom(content, 1, [hi |-> 0, lo |-> 0]))]

\* getLineNumberAtOffset(content, offset): the newlines before the offset.
getLineNumberAtOffset(content, offset) ==
    Cardinality({i \in 1..Len(content) : i <= offset /\ content[i] = "\n"})

\* {startLine, endLine, ...metadata}: the keys of metadata win.
WithLines(startLine, endLine, metadata) ==
    [k \in {"startLine", "endLine"} \cup DOMAIN metadata |->
        IF k \in DOMAIN metadata THEN metadata[k]
        ELSE IF k = "startLine" THEN startLine ELSE endLine]

\* The end of the run of whitespace that starts at i.
RECURSIVE SpaceRunEnd(_, _)
SpaceRunEnd(content, i) ==
    IF i < Len(content) /\ IsSpace(content[i + 1])
    THEN SpaceRunEnd(content, i + 1) ELSE i

\* content.split(/(?<=\.|\?|\!|\n)\s+/g): a run of whitespace that follows
\* a terminator separates two units.
RECURSIVE SplitUnits(_, _, _)
SplitUnits(content, i, current) ==
    IF i > Len(content) THEN <<current>>
    ELSE IF i > 1 /\ IsTerminator(content[i - 1]) /\ IsSpace(content[i])
         THEN <<current>> \o SplitUnits(content, SpaceRunEnd(content, i) + 1, <<>>)
         ELSE SplitUnits(content, i + 1, Append(current, content[i]))

\* The loop of SemanticChunkingStrategy.chunk over the semantic units, from
\* unit k on, with the chunk under construction.
RECURSIVE SemanticLoop(_, _, _, _, _, _, _, _)
SemanticLoop(content, metadata, maxChunkSize, units, k, currentChunk, currentStartLine, st) ==
    \* st = [chunks, currentPosition, chunkIndex]
    IF k > Len(units)
    THEN IF Len(currentChunk) > 0
         THEN Append(st.chunks,
                     [id |-> generateChunkId(currentChunk, st.chunkIndex, metadata),
                      content |-> currentChunk,
                      metadata |-> WithLines(currentStartLine,
                                             getLineNumberAtOffset(content, Len(content)),
                                             metadata)])
         ELSE st.chunks
    ELSE LET unit == units[k]
             full == Len(currentChunk) > 0
                       /\ Len(currentChunk) + Len(unit) > maxChunkSize
             chunks1 == IF full
                        THEN Append(st.chunks,
                                 [id |-> generateChunkId(currentChunk, st.chunkIndex, metadata),
                                  content |-> currentChunk,
                                  metadata |-> WithLines(currentStartLine,
                                                 getLineNumberAtOffset(content, st.currentPosition),
                                                 metadata)])
                        ELSE st.chunks
             chunk1 == IF full THEN <<>> ELSE currentChunk
             start1 == IF full
                       THEN getLineNumberAtOffset(content, st.currentPosition)
                       ELSE currentStartLine
             chunk2 == (IF Len(chunk1) > 0 THEN chunk1 \o <<" ">> ELSE chunk1) \o unit
         IN SemanticLoop(content, metadata, maxChunkSize, units, k + 1, chunk2, start1,
                         [chunks |-> chunks1,
                          currentPosition |-> st.currentPosition + Len(unit) + 1,
                          chunkIndex |-> IF full THEN st.chunkIndex + 1
                                         ELSE st.chunkIndex])

\* SemanticChunkingStrategy.chunk(content, metadata, token).  The function
\* has no await: the token reads the same at every check of one call.
SemanticChunk(content, metadata, maxChunkSize, cancelled) ==
    IF cancelled THEN <<>>
    ELSE LET semanticUnits == SelectSeq(SplitUnits(content, 1, <<>>), HasText)
         IN IF Len(semanticUnits) = 0 THEN <<>>
            ELSE SemanticLoop(content, metadata, maxChunkSize, semanticUnits, 1,
                              <<>>, 0,
                              [chunks |-> <<>>, currentPosition |-> 0, chunkIndex |-> 0])

\* String.prototype.substring(start, end): arguments are clamped to the
\* string and swapped when start > end.  Offsets are 0-based.
Clamp(n, len) == IF n < 0 THEN 0 ELSE IF n > len THEN len ELSE n

Substring(str, start, end) ==
    LET a == Clamp(start, Len(str))
        b == Clamp(end, Len(str))
    IN IF a <= b THEN SubSeq(str, a + 1, b) ELSE SubSeq(str, b + 1, a)

\* String.prototype.lastIndexOf(pattern), 0-based, -1 when absent.
LastIndexOf(str, pattern) ==
    LET hits == {i \in 0..(Len(str) - Len(pattern)) :
                    SubSeq(str, i + 1, i + Len(pattern)) = pattern}
    IN IF hits = {} THEN -1 ELSE CHOOSE i \in hits : \A j \in hits : j <= i

\* The natural breaks FixedSizeChunkingStrategy looks for, in order.
Breakpoints == << <<"\n", "\n">>, <<"\n">>, <<".", " ">>, <<",", " ">>, <<" ">> >>

\* The window the break is searched in, in characters around the cut.
BreakWindow == 100

\* The for loop over the breakpoints: the end position of the chunk that
\* starts at currentPosition, from breakpoint k on.
RECURSIVE FindBreak(_, _, _, _, _)
FindBreak(content, currentPosition, endPosition, minChunkSize, k) ==
    IF k > Len(Breakpoints) THEN endPosition
    ELSE LET a == endPosition - BreakWindow
             b == currentPosition + minChunkSize
             searchStart == IF a > b THEN a ELSE b
             c == endPosition + BreakWindow
             searchEnd == IF c < Len(content) THEN c ELSE Len(content)
             searchText == Substring(content, searchStart, searchEnd)
             breakpointIndex == LastIndexOf(searchText, Breakpoints[k])
         IN IF breakpointIndex # -1
                /\ searchStart + breakpointIndex > currentPosition + minChunkSize
            THEN searchStart + breakpointIndex + Len(Breakpoints[k])
            ELSE FindBreak(content, currentPosition, endPosition, minChunkSize, k + 1)

\* One pass through the body of the while loop of
\* FixedSizeChunkingStrategy.chunk: the chunk it pushes and where it ends.
FixedSizeIteration(content, metadata, opts, currentPosition, chunkIndex) ==
    LET cut == IF currentPosition + opts.maxChunkSize < Len(content)
               THEN currentPosition + opts.maxChunkSize ELSE Len(content)
        endPosition == IF cut < Len(content)
                       THEN FindBreak(content, currentPosition, cut,
                                      opts.minChunkSize, 1)
                       ELSE cut
        chunkContent == Substring(content, currentPosition, endPosition)
    IN [endPosition |-> endPosition,
        chunk |-> [id |-> generateChunkId(chunkContent, chunkIndex, metadata),
                   content |-> chunkContent,
                   metadata |-> WithLines(
                       getLineNumberAtOffset(content, currentPosition),
                       getLineNumberAtOffset(content, endPosition),
                       metadata)]]

\* The while loop of FixedSizeChunkingStrategy.chunk.
RECURSIVE FixedSizeLoop(_, _, _, _, _, _, _)
FixedSizeLoop(content, metadata, opts, currentPosition, chunkIndex, chunks, cancelled) ==
    IF ~(currentPosition < Len(content)) \/ cancelled THEN chunks
    ELSE LET pass == FixedSizeIteration(content, metadata, opts,
                                        currentPosition, chunkIndex)
         IN FixedSizeLoop(content, metadata, opts,
                          pass.endPosition - opts.overlap, chunkIndex + 1,
                          Append(chunks, pass.chunk), cancelled)

\* FixedSizeChunkingStrategy.chunk(content, metadata, token); opts holds
\* maxChunkSize, minChunkSize (options.minChunkSize || 100) and overlap.
FixedSizeChunk(content, metadata, opts, cancelled) ==
    IF cancelled THEN <<>>
    ELSE IF Len(content) <= opts.maxChunkSize
         THEN << [id |-> generateChunkId(content, 0, metadata),
                  content |-> content,
                  metadata |-> WithLines(0,
                                   getLineNumberAtOffset(content, Len(content)),
                                   metadata)] >>
         ELSE FixedSizeLoop(content, metadata, opts, 0, 0, <<>>, cancelled)

\* content.split('\n')
RECURSIVE SplitLines(_, _, _)
SplitLines(content, i, current) ==
    IF i > Len(content) THEN <<current>>
    ELSE IF content[i] = "\n"
         THEN <<current>> \o SplitLines(content, i + 1, <<>>)
         ELSE SplitLines(content, i + 1, Append(current, content[i]))

\* getPositionOffset(position, content)
getPositionOffset(position, content) ==
    LET lines == SplitLines(content, 1, <<>>)
    IN SumTo([i \in 1..position.line |->
                 (IF i <= Len(lines) THEN Len(lines[i]) ELSE 0) + 1],
             position.line)
       + position.column

\* An AST is the sequence of its nodes in the order walkAST visits them
\* (a node before its children); parent is the index of a node's parent, 0
\* for the root.
\* JavaScriptASTParser.parse: one Program node over the whole text.
JavaScriptAST(content) ==
    LET lines == SplitLines(content, 1, <<>>)
    IN << [type |-> "Program",
           range |-> [start |-> [line |-> 0, column |-> 0],
                      end |-> [line |-> Len(lines) - 1,
                               column |-> Len(lines[Len(lines)])]],
           parent |-> 0] >>

\* getChunkableNodeTypes(language)
getChunkableNodeTypes(language) ==
    {"FunctionDeclaration", "ClassDeclaration", "MethodDefinition",
     "PropertyDefinition", "Program"}
    \cup (CASE language = "typescript" ->
                 {"InterfaceDeclaration", "TypeAliasDeclaration",
                  "EnumDeclaration", "ExportDeclaration"}
            [] language = "javascript" ->
                 {"ObjectExpression", "ArrowFunctionExpression", "FunctionExpression"}
            [] language = "python" ->
                 {"ClassDef", "FunctionDef", "AsyncFunctionDef", "Module"}
            [] language = "java" ->
                 {"ClassOrInterfaceDeclaration", "MethodDeclaration",
                  "ConstructorDeclaration", "EnumDeclaration"}
            [] language = "go" ->
                 {"FuncDecl", "TypeDecl", "StructType", "InterfaceType"}
            [] OTHER -> {})

\* metadata with type set (and, last, the caller's keys on top).
WithType(type, metadata) ==
    [k \in {"type"} \cup DOMAIN metadata |-> IF k = "type" THEN type ELSE metadata[k]]

\* The visitor of extractChunksFromAST over the nodes from n on; idMap maps
\* the index of a chunked node to its chunk id.
RECURSIVE ExtractLoop(_, _, _, _, _, _, _)
ExtractLoop(ast, content, metadata, minChunkSize, n, chunks, idMap) ==
    IF n > Len(ast) THEN chunks
    ELSE LET node == ast[n]
             language == IF "language" \in DOMAIN metadata
                         THEN metadata.language ELSE ""
             nodeStart == getPositionOffset(node.range.start, content)
             nodeEnd == getPositionOffset(node.range.end, content)
             nodeContent == Substring(content, nodeStart, nodeEnd)
             emit == /\ node.type \in getChunkableNodeTypes(language)
                     /\ nodeStart >= 0 /\ nodeEnd > nodeStart
                     /\ ~(Len(nodeContent) < minChunkSize)
             chunkId == generateChunkId(nodeContent, Len(chunks),
                                        WithType(node.type, metadata))
             own == [k \in {"type"} \cup (IF node.parent \in DOMAIN idMap
                                          THEN {"parentId"} ELSE {}) |->
                        IF k = "type" THEN node.type ELSE idMap[node.parent]]
             meta == [k \in {"startLine", "endLine"} \cup DOMAIN own
                                \cup DOMAIN metadata |->
                         IF k \in DOMAIN metadata THEN metadata[k]
                         ELSE IF k \in DOMAIN own THEN own[k]
                         ELSE IF k = "startLine" THEN node.range.start.line
                         ELSE node.range.end.line]
         IN IF emit
            THEN ExtractLoop(ast, content, metadata, minChunkSize, n + 1,
                     Append(chunks, [id |-> chunkId, content |-> nodeContent,
                                     metadata |-> meta]),
                     [k \in DOMAIN idMap \cup {n} |->
                         IF k = n THEN chunkId ELSE idMap[k]])
            ELSE ExtractLoop(ast, content, metadata, minChunkSize, n + 1,
                             chunks, idMap)

\* extractChunksFromAST(node, content, metadata)
extractChunksFromAST(ast, content, metadata, minChunkSize) ==
    LET chunks == ExtractLoop(ast, content, metadata, minChunkSize, 1, <<>>, <<>>)
    IN IF Len(chunks) = 0
       THEN << [id |-> generateChunkId(content, 0, metadata),
                content |-> content,
                metadata |-> WithLines(0,
                                 getLineNumberAtOffset(content, Len(content)),
                                 metadata)] >>
       ELSE chunks

\* A catch block that spreads the caller's metadata after fallback: true.
FallbackChunksMetadataLast(content, metadata) ==
    << [id |-> generateChunkId(content, 0, metadata),
        content |-> content,
        metadata |->
            [k \in {"startLine", "endLine", "fallback"} \cup DOMAIN metadata |->
                IF k \in DOMAIN metadata THEN metadata[k]
                ELSE IF k = "fallback" THEN TRUE
                ELSE IF k = "startLine" THEN 0
                ELSE getLineNumberAtOffset(content, Len(content))]] >>

\* The catch block of ASTChunkingStrategy.chunk: one chunk of the whole
\* content with fallback: true.
FallbackChunks(content, metadata) ==
    << [id |-> generateChunkId(content, 0, metadata),
        content |-> content,
        metadata |->
            [k \in {"startLine", "endLine", "fallback"} \cup DOMAIN metadata |->
                IF k = "fallback" THEN TRUE
                ELSE IF k \in DOMAIN metadata THEN metadata[k]
                ELSE IF k = "startLine" THEN 0
                ELSE getLineNumberAtOffset(content, Len(content))]] >>

\* What the parser answers: it throws, or it returns an AST.
ParseThrows == [throws |-> TRUE]

\* An AST that the parser's walkAST throws on.
WalkThrows(ast) == [ast |-> ast, walkThrows |-> TRUE]

\* ASTChunkingStrategy.chunk, after the await of astParser.parse: the try
\* block covers the parse and the extraction.
ASTChunkAfterParse(content, metadata, minChunkSize, parsed, cancelled) ==
    IF parsed = ParseThrows THEN FallbackChunks(content, metadata)
    ELSE IF cancelled THEN <<>>
    ELSE IF "walkThrows" \in DOMAIN parsed THEN FallbackChunks(content, metadata)
    ELSE extractChunksFromAST(parsed.ast, content, metadata, minChunkSize)

----------------------------------------------------------------------------
(* EmbeddingsService and the embedding providers.                          *)

\* The ids providers are registered under, and an id nothing is registered
\* under.
ProviderIds == {"default"}

MissingProviderId == "missing"

Count(text, c) == Cardinality({i \in 1..Len(text) : text[i] = c})

\* EmbeddingProvider.computeEmbeddings for one text: the provider of the
\* model counts the letters a and b.
EmbedText(id, text) == <<Count(text, "a"), Count(text, "b")>>

\* The error of a lookup that finds no provider, as a value.
NoSuchProvider(id) == [error |-> "No embedding provider found with id: " \o id]

\* computeEmbeddings that looks the provider up before it reads the token.
computeEmbeddingsLookupFirst(registered, providerId, texts, cancelled) ==
    IF providerId \notin registered
    THEN [result |-> NoSuchProvider(providerId), invoked |-> FALSE]
    ELSE IF cancelled THEN [result |-> [value |-> <<>>], invoked |-> FALSE]
    ELSE [result |-> [value |-> [i \in 1..Len(texts) |->
                                    EmbedText(providerId, texts[i])]],
          invoked |-> TRUE]

\* computeEmbeddings that answers with no embeddings for an unknown id.
computeEmbeddingsLenient(registered, providerId, texts, cancelled) ==
    IF cancelled \/ providerId \notin registered
    THEN [result |-> [value |-> <<>>], invoked |-> FALSE]
    ELSE [result |-> [value |-> [i \in 1..Len(texts) |->
                                    EmbedText(providerId, texts[i])]],
          invoked |-> TRUE]

\* EmbeddingsService.computeEmbeddings(providerId, texts, token): what the
\* call settles with, and whether a provider was invoked.
computeEmbeddings(registered, providerId, texts, cancelled) ==
    IF cancelled THEN [result |-> [value |-> <<>>], invoked |-> FALSE]
    ELSE IF providerId \notin registered
         THEN [result |-> NoSuchProvider(providerId), invoked |-> FALSE]
         ELSE [result |-> [value |-> [i \in 1..Len(texts) |->
                                         EmbedText(providerId, texts[i])]],
               invoked |-> TRUE]

----------------------------------------------------------------------------
(* SemanticSearchEngine.search, after the await of the query's embedding.  *)

\* options.topK ?? 5 and options.threshold ?? 0.0
DefaultTopK == 5

semanticSearch(docs, queryEmbedding, options) ==
    LET topK == IF "topK" \in DOMAIN options THEN options.topK ELSE DefaultTopK
        threshold == IF "threshold" \in DOMAIN options THEN options.threshold
                     ELSE Score(0, 1)
        scored == [i \in 1..Len(docs) |->
                      [id |-> docs[i].key,
                       score |-> cosineSimilarity(queryEmbedding,
                                                  docs[i].value.embedding),
                       content |-> docs[i].value.text,
                       metadata |-> docs[i].value.metadata]]
    IN IF \E i \in 1..Len(scored) : IsError(scored[i].score)
       THEN DimensionMismatch
       ELSE [value |->
                Slice(SortByScore(
                          SelectSeq(scored,
                                    LAMBDA r : ScoreGeq(r.score, threshold))),
                      topK)]

----------------------------------------------------------------------------
(* PromptBuilder.  A text is a sequence of pieces, each a run of            *)
(* non-whitespace characters or one whitespace character.                  *)

\* text.split(/\s+/).length: one more than the runs of whitespace.
WordCount(text) ==
    1 + Cardinality({i \in 1..Len(text) :
                        IsSpace(text[i]) /\ (i = 1 \/ ~IsSpace(text[i - 1]))})

\* estimateTokens(text): Math.ceil(words * 1.3)
estimateTokens(text) == (13 * WordCount(text) + 9) \div 10

\* The default template.
DefaultTemplate ==
    [systemMessage |-> <<"You", " ", "are", " ", "a", " ", "helpful", " ",
                         "coding", " ", "assistant", " ", "with", " ",
                         "expertise", " ", "in", " ", "software", " ",
                         "development.">>,
     userMessageTemplate |-> <<"{{query}}">>,
     contextHeader |-> <<"Here", " ", "is", " ", "some", " ", "relevant", " ",
                         "code", " ", "context:", "\n">>,
     contextFooter |-> <<"\n", "Please", " ", "answer", " ", "based", " ",
                         "on", " ", "the", " ", "above", " ", "context.">>,
     contextSeparator |-> <<"\n", "---", "\n">>]

\* fileName.join('.'): a file name is kept as its parts between the dots.
RECURSIVE JoinDots(_)
JoinDots(parts) ==
    IF Len(parts) = 0 THEN ""
    ELSE IF Len(parts) = 1 THEN parts[1]
    ELSE parts[1] \o "." \o JoinDots(Tail(parts))

\* formatSnippet(snippet); the fence of three backquotes is written ~~~.
formatSnippet(snippet) ==
    <<"File:", " ", JoinDots(snippet.metadata.fileName), " ", "(Lines", " ",
      ToString(snippet.startLine + 1) \o "-" \o ToString(snippet.endLine + 1) \o ")",
      "\n", "~~~" \o snippet.metadata.language, "\n">>
    \o snippet.content \o <<"\n", "~~~">>

\* The loop of calculateSnippetsToInclude from snippet k on.
RECURSIVE IncludeLoop(_, _, _, _, _)
IncludeLoop(snippets, template, availableTokens, k, tokenCount) ==
    IF k > Len(snippets) THEN <<>>
    ELSE LET snippetTokens == estimateTokens(formatSnippet(snippets[k])
                                             \o template.contextSeparator)
         IN IF tokenCount + snippetTokens <= availableTokens
            THEN <<snippets[k]>>
                 \o IncludeLoop(snippets, template, availableTokens, k + 1,
                                tokenCount + snippetTokens)
            ELSE <<>>

\* 500 tokens are reserved for the query and formatting.
ReservedTokens == 500

calculateSnippetsToInclude(snippets, template, maxContextTokens, maxOutputTokens) ==
    IncludeLoop(snippets, template,
                maxContextTokens - (ReservedTokens + maxOutputTokens), 1, 0)

\* String.prototype.replace(placeholder, by): the first occurrence.
RECURSIVE ReplaceFirst(_, _, _)
ReplaceFirst(text, placeholder, by) ==
    IF text = <<>> THEN <<>>
    ELSE IF Head(text) = placeholder THEN by \o Tail(text)
    ELSE <<Head(text)>> \o ReplaceFirst(Tail(text), placeholder, by)

RECURSIVE JoinSnippets(_, _)
JoinSnippets(snippets, separator) ==
    IF Len(snippets) = 0 THEN <<>>
    ELSE IF Len(snippets) = 1 THEN formatSnippet(snippets[1])
    ELSE formatSnippet(snippets[1]) \o separator
         \o JoinSnippets(Tail(snippets), separator)

\* A sort by relevance that puts a snippet before those of equal relevance.
RECURSIVE InsertBeforeEqualRelevance(_, _)
InsertBeforeEqualRelevance(sorted, s) ==
    IF sorted = <<>> THEN <<s>>
    ELSE IF ~ScoreGeq(s.relevance, Head(sorted).relevance)
         THEN <<Head(sorted)>> \o InsertBeforeEqualRelevance(Tail(sorted), s)
         ELSE <<s>> \o sorted

\* [...codeSnippets].sort((a, b) => b.relevance - a.relevance), stable.
RECURSIVE InsertByRelevance(_, _)
InsertByRelevance(sorted, s) ==
    IF sorted = <<>> THEN <<s>>
    ELSE IF ScoreGeq(Head(sorted).relevance, s.relevance)
         THEN <<Head(sorted)>> \o InsertByRelevance(Tail(sorted), s)
         ELSE <<s>> \o sorted

\* modelCapabilities?.contextWindow || 4000, ?.maxOutputTokens || 1000
DefaultContextWindow == 4000

DefaultMaxOutputTokens == 1000

\* PromptBuilder.buildPrompt(context); relevance is a score, and
\* systemInfo is not given.
promptBuilderBuildPrompt(template, context) ==
    LET capabilities == context.modelCapabilities
        given == capabilities # Null
        sortedSnippets == FoldSeq(InsertByRelevance, <<>>, context.codeSnippets)
        snippetsToInclude ==
            calculateSnippetsToInclude(sortedSnippets, template,
                IF given /\ capabilities.contextWindow # 0
                THEN capabilities.contextWindow ELSE DefaultContextWindow,
                IF given /\ "maxOutputTokens" \in DOMAIN capabilities
                         /\ capabilities.maxOutputTokens # 0
                THEN capabilities.maxOutputTokens ELSE DefaultMaxOutputTokens)
        contextString ==
            IF Len(snippetsToInclude) > 0
            THEN template.contextHeader
                 \o JoinSnippets(snippetsToInclude, template.contextSeparator)
                 \o template.contextFooter
            ELSE <<>>
        userMessage ==
            ReplaceFirst(ReplaceFirst(template.userMessageTemplate,
                                      "{{query}}", context.query),
                         "{{context}}", contextString)
        supported == given /\ capabilities.supportsSystemMessage
        finalUserMessage == IF supported THEN userMessage
                            ELSE <<"\n", "\n">> \o userMessage
        systemText == IF supported THEN template.systemMessage ELSE <<>>
        base == [userMessage |-> finalUserMessage,
                 metadata |->
                     [includedSnippets |-> Len(snippetsToInclude),
                      totalSnippets |-> Len(sortedSnippets),
                      estimatedTokens |->
                          estimateTokens(systemText \o finalUserMessage)]]
    IN IF supported
       THEN [k \in DOMAIN base \cup {"systemMessage"} |->
                IF k = "systemMessage" THEN template.systemMessage ELSE base[k]]
       ELSE base
----------------------------------------------------------------------------
(* VoidIndexing.                                                           *)

\* ChunkingStrategyType
FixedSize == 0

Semantic == 1

AST == 2

Hybrid == 3

\* The defaults of ChunkingStrategy's constructor.
DefaultMinChunkSize == 100

DefaultOverlap == 0

\* config.chunkingOptions, completed by the defaults.
ChunkingOptions ==
    [maxChunkSize |-> MaxChunkSize, minChunkSize |-> DefaultMinChunkSize,
     overlap |-> DefaultOverlap]

\* options.x || fallback for a numeric option.
OrDefault(options, field, fallback) ==
    IF field \in DOMAIN options /\ options[field] # 0
    THEN options[field] ELSE fallback

\* A path is the sequence of its segments between the slashes, a segment
\* the sequence of its parts between the dots; the empty segment is <<>>.
\* fileName = filePath.split('/').pop() || ''
FileNameOf(filePath) == filePath[Len(filePath)]

\* fileName.includes('.') ? fileName.split('.').pop() || '' : ''
FileExtensionOf(fileName) ==
    IF Len(fileName) > 1 THEN fileName[Len(fileName)] ELSE ""

toLowerCase(str) == CASE str = "TS" -> "ts" [] str = "JS" -> "js" [] OTHER -> str

\* getLanguageFromExtension(extension), for the extensions of the model.
getLanguageFromExtension(extension) ==
    LET e == toLowerCase(extension)
    IN CASE e = "js" -> "javascript"
         [] e = "ts" -> "typescript"
         [] e = "py" -> "python"
         [] e = "md" -> "markdown"
         [] OTHER -> "plaintext"

\* The metadata indexFile builds for a file.
FileMetadata(filePath, now) ==
    [fileName |-> FileNameOf(filePath),
     filePath |-> filePath,
     language |-> getLanguageFromExtension(FileExtensionOf(FileNameOf(filePath))),
     fileExtension |-> FileExtensionOf(FileNameOf(filePath)),
     indexedAt |-> now]

\* options.chunkingStrategy || Semantic, then chunkingStrategies.get(it) ||
\* chunkingStrategies.get(FixedSize): the type of the strategy that runs.
SelectStrategy(options, ast) ==
    LET strategy == OrDefault(options, "chunkingStrategy", Semantic)
    IN IF strategy \in {FixedSize, Semantic} \/ (strategy = AST /\ ast # Null)
       THEN strategy ELSE FixedSize

\* chunk(content, metadata, token) of the two strategies that never wait.
ChunkNow(strategy, content, metadata, cancelled) ==
    IF strategy = Semantic
    THEN SemanticChunk(content, metadata, ChunkingOptions.maxChunkSize, cancelled)
    ELSE FixedSizeChunk(content, metadata,
             [ChunkingOptions EXCEPT
                 !.minChunkSize = OrDefault(ChunkingOptions, "minChunkSize", 100)],
             cancelled)

\* options.providerId || this.defaultProviderId
ProviderOf(options, default) ==
    IF "providerId" \in DOMAIN options /\ options.providerId # ""
    THEN options.providerId ELSE default

\* The chunk the loop of indexFile takes at its i-th turn, last first.
NextChunkReversed(chunks, i) == chunks[Len(chunks) + 1 - i]

\* The chunk the loop of indexFile takes at its i-th turn.
NextChunk(chunks, i) == chunks[i]

\* What buildPrompt returns when it sees the token cancelled.
CancelledPrompt(query) ==
    [userMessage |-> query,
     metadata |-> [includedSnippets |-> 0, totalSnippets |-> 0,
                   estimatedTokens |-> 0]]

\* searchResults.map(...) of search: metadata || {}
ToSearchResult(r) ==
    [id |-> r.id, content |-> r.content, score |-> r.score,
     metadata |-> IF r.metadata = Null THEN <<>> ELSE r.metadata]

\* results.map(...) of buildPrompt
ToSnippet(result) ==
    LET m == result.metadata
    IN [content |-> result.content,
        startLine |-> OrDefault(m, "startLine", 0),
        endLine |-> OrDefault(m, "endLine", 0),
        relevance |-> result.score,
        type |-> 0,
        metadata |->
            [fileName |-> IF "fileName" \in DOMAIN m /\ m.fileName # <<>>
                          THEN m.fileName ELSE <<"unknown">>,
             language |-> IF "language" \in DOMAIN m /\ m.language # ""
                          THEN m.language ELSE "plaintext"]]

----------------------------------------------------------------------------
(* What the orchestrator is driven with.                                   *)

FilePaths == { << <<"src">>, <<"a", "TS">> >> }

\* Two sentences, and the empty file.
Contents == { <<"a", ".", " ", "b">>, <<>> }

IndexingOptions ==
    { [k \in {} |-> 0],
      [chunkingStrategy |-> FixedSize],
      [chunkingStrategy |-> Hybrid],
      [chunkingStrategy |-> AST],
      [providerId |-> MissingProviderId] }

ContentMetadata == { [k \in {} |-> 0] }

Queries == { <<"a">>, <<"b">> }

SearchOptions == { [k \in {} |-> 0], [topK |-> 1, threshold |-> Score(49, 100)] }

PromptOptions ==
    { [k \in {} |-> 0],
      [maxContextItems |-> 1,
       modelCapabilities |-> [contextWindow |-> 2000,
                              supportsSystemMessage |-> TRUE]] }

\* What registerASTParser is given as options.
ASTOptions == { [minChunkSize |-> 1] }

Idle == [op |-> "idle"]

Pending == [op |-> "pending", atStart |-> FALSE]

IndexingInit ==
    /\ providers = {}
    /\ defaultProviderId = "default"
    /\ astStrategy = Null
    /\ semDocuments = <<>>
    /\ clock = 0
    /\ token = FALSE
    /\ call = Idle
    /\ outcome = [op |-> "none", atStart |-> FALSE]
    /\ written = <<>>
    /\ indexed = {}
    /\ history = <<>>

ChunkIds(chunks) == [i \in 1..Len(chunks) |-> chunks[i].id]

\* indexed after a step of an indexing call.
IndexedAfter(next) ==
    IF /\ next.call = Idle
       /\ next.outcome.op = "indexFile"
       /\ ~IsError(next.outcome.result)
       /\ ~next.outcome.cancelled
    THEN indexed \cup Range(ChunkIds(next.outcome.result.value))
    ELSE indexed

\* What a call that got past its first check leaves behind when it ends:
\* the call as it stood, its result, whether it ended on seeing the token
\* cancelled, and what the token read at the end.
Done(c, result, observed, cancelled) ==
    [call |-> Idle,
     outcome |-> [op |-> c.op, atStart |-> FALSE, call |-> c,
                  result |-> result, observed |-> observed,
                  cancelled |-> cancelled]]

Waiting(c) == [call |-> c, outcome |-> Pending]

\* this.options.minChunkSize || 20 of ASTChunkingStrategy, the options
\* completed by the defaults.
ASTMinChunkSize(options) ==
    LET merged == IF "minChunkSize" \in DOMAIN options
                  THEN options.minChunkSize ELSE DefaultMinChunkSize
    IN IF merged # 0 THEN merged ELSE 20

\* The start of chunkingStrategy.chunk(content, metadata, token) for a
\* token that is not cancelled: the AST strategy waits for its parser, the
\* other two have their chunks at once.
StartChunking(c, options) ==
    LET strategy == SelectStrategy(options, astStrategy)
    IN IF strategy = AST
       THEN [c EXCEPT !.pc = "parsing", !.strategy = strategy,
                      !.minChunkSize = ASTMinChunkSize(astStrategy)]
       ELSE [c EXCEPT !.pc = "chunked", !.strategy = strategy,
                      !.chunks = ChunkNow(strategy, c.content, c.metadata, FALSE)]

NewCall(op, content, metadata, options) ==
    [op |-> op, pc |-> "start", content |-> content, metadata |-> metadata,
     options |-> options, strategy |-> Semantic, threw |-> FALSE,
     minChunkSize |-> 0, chunks |-> <<>>,
     providerId |-> "", i |-> 0, embeddings |-> <<>>]

\* One turn of the for loop of indexFile, up to its first await.
IndexFileTurn(c, i, cancelled, registered) ==
    IF i > Len(c.chunks) THEN Done(c, [value |-> c.chunks], FALSE, cancelled)
    ELSE IF cancelled THEN Done(c, [value |-> <<>>], TRUE, cancelled)
    ELSE LET e == computeEmbeddings(registered, c.providerId,
                                    <<NextChunk(c.chunks, i).content>>, cancelled)
         IN IF IsError(e.result) THEN Done(c, e.result, FALSE, cancelled)
            ELSE Waiting([c EXCEPT !.pc = "embedding", !.i = i,
                                   !.embeddings = e.result.value])

\* indexFile(filePath, content, options, token), for at most limit calls
\* that get past the first check.
IndexFile(limit) ==
    \E filePath \in FilePaths, content \in Contents, options \in IndexingOptions,
       cancelled \in BOOLEAN :
        /\ call = Idle
        /\ IF cancelled
           THEN /\ outcome' = [op |-> "indexFile", atStart |-> TRUE,
                               providerId |-> ProviderOf(options, defaultProviderId),
                               result |-> [value |-> <<>>]]
                /\ UNCHANGED <<call, token, clock, written>>
           ELSE /\ clock < limit
                /\ call' = StartChunking(
                               NewCall("indexFile", content,
                                       FileMetadata(filePath, clock + 1), options),
                               options)
                /\ outcome' = Pending
                /\ token' = FALSE
                /\ clock' = clock + 1
                /\ written' = <<>>

IndexFileCall == IndexFile(MaxCalls)

\* indexContent(content, metadata, options, token)
IndexContentCall ==
    \E content \in Contents, metadata \in ContentMetadata,
       options \in IndexingOptions, cancelled \in BOOLEAN :
        /\ call = Idle
        /\ IF cancelled
           THEN /\ outcome' = [op |-> "indexContent", atStart |-> TRUE,
                               providerId |-> ProviderOf(options, defaultProviderId),
                               result |-> [value |-> Null]]
                /\ UNCHANGED <<call, token, clock, written>>
           ELSE /\ clock < MaxCalls
                /\ call' = StartChunking(
                               NewCall("indexContent", content, metadata, options),
                               options)
                /\ outcome' = Pending
                /\ token' = FALSE
                /\ clock' = clock + 1
                /\ written' = <<>>

\* ASTChunkingStrategy.chunk resumes when astParser.parse settles.
ParseDone ==
    /\ call.op \in {"indexFile", "indexContent"}
    /\ call.pc = "parsing"
    /\ \E parsed \in {ParseThrows, [ast |-> JavaScriptAST(call.content)]} :
           call' = [call EXCEPT
                       !.pc = "chunked",
                       !.threw = (parsed = ParseThrows),
                       !.chunks = ASTChunkAfterParse(call.content, call.metadata,
                                      call.minChunkSize, parsed, token)]
    /\ UNCHANGED <<outcome, token, clock, written>>

\* indexFile and indexContent resume with the chunks.
ChunksDone ==
    /\ call.op \in {"indexFile", "indexContent"}
    /\ call.pc = "chunked"
    /\ LET c == [call EXCEPT
                    !.providerId = ProviderOf(call.options, defaultProviderId)]
           next ==
               IF call.op = "indexFile"
               THEN IF token THEN Done(call, [value |-> <<>>], TRUE, token)
                    ELSE IF c.providerId \notin providers
                         THEN Done(c, NoSuchProvider(c.providerId), FALSE, token)
                         ELSE IndexFileTurn(c, 1, token, providers)
               ELSE IF token
                    THEN Done(call, [value |-> Null], TRUE, token)
                    ELSE IF Len(call.chunks) = 0
                    THEN Done(call, [value |-> Null], FALSE, token)
                    ELSE LET e == computeEmbeddings(providers, c.providerId,
                                      <<c.chunks[1].content>>, token)
                         IN IF IsError(e.result)
                            THEN Done(c, e.result, FALSE, token)
                            ELSE Waiting([c EXCEPT !.pc = "embedding", !.i = 1,
                                              !.embeddings = e.result.value])
       IN call' = next.call /\ outcome' = next.outcome
          /\ indexed' = IndexedAfter(next)
    /\ UNCHANGED <<token, clock, written>>

\* const [embedding] = embeddings: undefined, here Null, when there is none.
FirstOf(embeddings) == IF Len(embeddings) > 0 THEN embeddings[1] ELSE Null

\* The provider's embeddings arrive: const [embedding] = ..., then
\* storage.storeDocument(chunk.id, chunk.content, embedding, chunk.metadata).
EmbeddingDone ==
    /\ call.op \in {"indexFile", "indexContent"}
    /\ call.pc = "embedding"
    /\ LET chunk == IF call.op = "indexFile" THEN NextChunk(call.chunks, call.i)
                    ELSE call.chunks[1]
           embedding == FirstOf(call.embeddings)
       IN /\ storage' = storeDocument(storage, chunk.id, chunk.content,
                                      embedding, chunk.metadata)
          /\ written' = Append(written, chunk.id)
    /\ call' = [call EXCEPT !.pc = "storing"]
    /\ UNCHANGED <<outcome, token, clock>>

\* storeDocument has settled: the next turn of the loop of indexFile, the
\* return of indexContent.
StoreDone ==
    /\ call.op \in {"indexFile", "indexContent"}
    /\ call.pc = "storing"
    /\ LET next == IF call.op = "indexFile"
                   THEN IndexFileTurn(call, call.i + 1, token, providers)
                   ELSE Done(call, [value |-> call.chunks[1]], FALSE, token)
       IN call' = next.call /\ outcome' = next.outcome
          /\ indexed' = IndexedAfter(next)
    /\ UNCHANGED <<token, clock, written>>

\* search(query, options, token) up to the await of the query's embedding;
\* a buildPrompt call takes the same steps with the options it derives.
StartSearch(c, registered) ==
    LET e == computeEmbeddings(registered, c.providerId, <<c.content>>, FALSE)
    IN IF IsError(e.result) THEN Done(c, e.result, FALSE, FALSE)
       ELSE Waiting([c EXCEPT !.pc = "embedding", !.embeddings = e.result.value])

SearchCall ==
    \E query \in Queries, options \in SearchOptions, cancelled \in BOOLEAN :
        /\ call = Idle
        /\ IF cancelled
           THEN /\ outcome' = [op |-> "search", atStart |-> TRUE,
                               result |-> [value |-> <<>>]]
                /\ UNCHANGED <<call, token>>
           ELSE /\ LET next == StartSearch(
                                   [NewCall("search", query, Null, options)
                                       EXCEPT !.providerId = defaultProviderId],
                                   providers)
                   IN call' = next.call /\ outcome' = next.outcome
                /\ token' = FALSE

\* buildPrompt(query, options, token)
BuildPromptCall ==
    \E query \in Queries, options \in PromptOptions, cancelled \in BOOLEAN :
        /\ call = Idle
        /\ IF cancelled
           THEN /\ outcome' = [op |-> "buildPrompt", atStart |-> TRUE,
                               result |-> [value |-> CancelledPrompt(query)]]
                /\ UNCHANGED <<call, token>>
           ELSE /\ LET next == StartSearch(
                                   [NewCall("buildPrompt", query, Null, options)
                                       EXCEPT !.providerId = defaultProviderId],
                                   providers)
                   IN call' = next.call /\ outcome' = next.outcome
                /\ token' = FALSE

\* The options buildPrompt searches with: maxContextItems || 5 and
\* searchThreshold || 0.7.
PromptSearchOptions(options) ==
    [topK |-> OrDefault(options, "maxContextItems", DefaultTopK),
     threshold |-> IF "searchThreshold" \in DOMAIN options
                      /\ options.searchThreshold.num # 0
                   THEN options.searchThreshold ELSE Score(49, 100)]

\* SemanticSearchEngine.search resumes with the query's embedding.
SearchEmbedded ==
    /\ call.op \in {"search", "buildPrompt"}
    /\ call.pc = "embedding"
    /\ LET found == IF token THEN [value |-> <<>>]
                    ELSE semanticSearch(semDocuments, FirstOf(call.embeddings),
                             IF call.op = "search" THEN call.options
                             ELSE PromptSearchOptions(call.options))
           results == IF IsError(found) THEN found
                      ELSE [value |-> [i \in 1..Len(found.value) |->
                                          ToSearchResult(found.value[i])]]
           next == IF call.op = "search" \/ IsError(results)
                   THEN Done(call, results, token, token)
                   ELSE Waiting([call EXCEPT !.pc = "searched",
                                             !.chunks = results.value])
       IN call' = next.call /\ outcome' = next.outcome
    /\ UNCHANGED token

\* buildPrompt resumes with the search results.
BuildPromptAfterSearch ==
    /\ call.op = "buildPrompt"
    /\ call.pc = "searched"
    /\ LET next ==
           IF token THEN Done(call, [value |-> CancelledPrompt(call.content)],
                              TRUE, token)
           ELSE Done(call,
                     [value |-> promptBuilderBuildPrompt(DefaultTemplate,
                         [query |-> call.content,
                          codeSnippets |-> [i \in 1..Len(call.chunks) |->
                                               ToSnippet(call.chunks[i])],
                          modelCapabilities |->
                              IF "modelCapabilities" \in DOMAIN call.options
                              THEN call.options.modelCapabilities ELSE Null])],
                     FALSE, token)
       IN call' = next.call /\ outcome' = next.outcome
    /\ UNCHANGED token

\* CancellationTokenSource.cancel() on the token of the call in progress.
Cancel ==
    /\ call # Idle
    /\ ~token
    /\ token' = TRUE
    /\ UNCHANGED <<call, outcome>>

\* What a registration leaves as the outcome; one made while a call is in
\* progress leaves the call pending.
Configured == [op |-> "configured", atStart |-> FALSE]

\* registerEmbeddingProvider(id, provider)
RegisterEmbeddingProvider ==
    \E id \in ProviderIds :
        /\ providers' = providers \cup {id}
        /\ outcome' = IF call = Idle THEN Configured ELSE outcome
        /\ UNCHANGED <<defaultProviderId, astStrategy>>

\* setDefaultProviderId(id): throws for an id nothing is registered under.
SetDefaultProviderId ==
    \E id \in ProviderIds \cup {MissingProviderId} :
        /\ defaultProviderId' = IF id \in providers THEN id ELSE defaultProviderId
        /\ outcome' = IF call # Idle THEN outcome
                      ELSE IF id \in providers THEN Configured
                      ELSE [op |-> "setDefaultProviderId", atStart |-> FALSE,
                            result |-> NoSuchProvider(id)]
        /\ UNCHANGED <<providers, astStrategy>>

\* registerASTParser(astParser, options)
RegisterASTParser ==
    \E options \in ASTOptions :
        /\ astStrategy' = options
        /\ outcome' = IF call = Idle THEN Configured ELSE outcome
        /\ UNCHANGED <<providers, defaultProviderId>>

\* EmbeddingsService.computeEmbeddings(providerId, texts, token), called
\* directly.
ComputeEmbeddings ==
    \E id \in ProviderIds \cup {MissingProviderId}, texts \in {<<<<"a">>>>},
       cancelled \in BOOLEAN :
        LET e == computeEmbeddings(providers, id, texts, cancelled)
        IN /\ call = Idle
           /\ outcome' = [op |-> "computeEmbeddings", atStart |-> cancelled,
                          providerId |-> id,
                          result |-> e.result, invoked |-> e.invoked]

\* chunk(content, metadata, token) of a strategy, called directly.  The
\* AST strategy waits for its parser.
Chunk ==
    \E strategy \in {FixedSize, Semantic, AST}, content \in Contents \ {<<>>},
       cancelled \in BOOLEAN :
        \E parsed \in {ParseThrows, [ast |-> JavaScriptAST(content)]} :
            /\ call = Idle
            /\ outcome' =
                [op |-> "chunk", atStart |-> cancelled, strategy |-> strategy,
                 result |->
                    [value |->
                        IF strategy # AST
                        THEN ChunkNow(strategy, content, [k \in {} |-> 0], cancelled)
                        ELSE IF cancelled THEN <<>>
                        ELSE ASTChunkAfterParse(content, [k \in {} |-> 0],
                                 ASTMinChunkSize([k \in {} |-> 0]), parsed, cancelled)]]

\* The documents and queries the sparse index is driven with here.
SparseDocuments ==
    { [key |-> "a", textChunks |-> << <<<<"cat">>, <<"cat">>>>, <<<<"fox">>>> >>] }

SparseQueries == { << <<"cat">> >>, << <<"fox">> >>, << <<"cat">>, <<"fox">> >> }

\* updateDocuments with a list of one document.
UpdateOneDocument ==
    \E doc \in SparseDocuments :
        /\ call = Idle
        /\ SetCalc(updateDocuments(Calc, <<doc>>))
        /\ tfDeleted' = {}
        /\ outcome' = Configured

\* calculateScores(query, token)
CalculateScores ==
    \E query \in SparseQueries, cancelled \in BOOLEAN :
        /\ call = Idle
        /\ outcome' = [op |-> "calculateScores", atStart |-> cancelled,
                       query |-> query,
                       result |-> [value |-> calculateScores(Calc, query, cancelled)]]

\* What the calls of the orchestrator never write.
varsRegistry == <<providers, defaultProviderId, astStrategy, semDocuments>>

varsCall == <<clock, token, call, written, indexed, history>>

NextIndexing ==
    \/ RegisterEmbeddingProvider
         /\ UNCHANGED <<varsRest, varsTfIdf, varsStorage, semDocuments, varsCall>>
    \/ SetDefaultProviderId
         /\ UNCHANGED <<varsRest, varsTfIdf, varsStorage, semDocuments, varsCall>>
    \/ RegisterASTParser
         /\ UNCHANGED <<varsRest, varsTfIdf, varsStorage, semDocuments, varsCall>>
    \/ ComputeEmbeddings /\ UNCHANGED <<varsRest, varsTfIdf, varsStorage, varsRegistry, varsCall>>
    \/ Chunk /\ UNCHANGED <<varsRest, varsTfIdf, varsStorage, varsRegistry, varsCall>>
    \/ UpdateOneDocument /\ UNCHANGED <<varsRest, varsStorage, varsRegistry, varsCall>>
    \/ CalculateScores /\ UNCHANGED <<varsRest, varsTfIdf, varsStorage, varsRegistry, varsCall>>
    \/ IndexFileCall /\ UNCHANGED <<varsRest, varsTfIdf, varsStorage, varsRegistry, indexed, history>>
    \/ IndexContentCall
         /\ UNCHANGED <<varsRest, varsTfIdf, varsStorage, varsRegistry, indexed, history>>
    \/ ParseDone /\ UNCHANGED <<varsRest, varsTfIdf, varsStorage, varsRegistry, indexed, history>>
    \/ ChunksDone /\ UNCHANGED <<varsRest, varsTfIdf, varsStorage, varsRegistry, history>>
    \/ EmbeddingDone
         /\ UNCHANGED <<varsRest, varsTfIdf, stResult, stLast, stOrder, varsRegistry, indexed, history>>
    \/ StoreDone /\ UNCHANGED <<varsRest, varsTfIdf, varsStorage, varsRegistry, history>>
    \/ SearchCall
         /\ UNCHANGED <<varsRest, varsTfIdf, varsStorage, varsRegistry, clock, written, indexed,
                      history>>
    \/ BuildPromptCall
         /\ UNCHANGED <<varsRest, varsTfIdf, varsStorage, varsRegistry, clock, written, indexed,
                      history>>
    \/ SearchEmbedded
         /\ UNCHANGED <<varsRest, varsTfIdf, varsStorage, varsRegistry, clock, written, indexed,
                      history>>
    \/ BuildPromptAfterSearch
         /\ UNCHANGED <<varsRest, varsTfIdf, varsStorage, varsRegistry, clock, written, indexed,
                      history>>
    \/ Cancel
         /\ UNCHANGED <<varsRest, varsTfIdf, varsStorage, varsRegistry, clock, written, indexed,
                      history>>

----------------------------------------------------------------------------
(* ContextKeyService, its Context objects and its ContextKey objects.      *)
(*                                                                         *)
(* A Context object lives on after disposeContext removed it from the      *)
(* service's map: its children still point at it and a caller may still    *)
(* hold it.  The objects are numbered by their ids; contexts is the set of *)
(* ids the map holds.  Parents are set by createChildContext only:         *)
(* Context.updateParent has no caller.                                     *)

\* Largest id the service hands out.
MaxContextId == 3

\* The keys contexts are written with.
ContextKeyNames == {"rootKey", "childKey"}

\* The values the service and the context keys write.
ContextValues == {"v1", "v2"}

\* The ContextKey objects createKey is asked for: a key and its default.
ContextKeyInputs ==
    { [key |-> "rootKey", defaultValue |-> [value |-> "v1"]],
      [key |-> "childKey", defaultValue |-> [undefined |-> TRUE]] }

\* undefined, as a value that compares with records.
Undefined == [undefined |-> TRUE]

\* new Error(`Unknown context: ${contextId}`)
UnknownContext(contextId) == [error |-> "Unknown context", contextId |-> contextId]

\* Object.create(null)
NoValues == [k \in {} |-> 0]

\* Context.setValue(key, value): this._value[key] = value
setValue(value, key, v) ==
    [k \in DOMAIN value \cup {key} |-> IF k = key THEN v ELSE value[k]]

\* Context.removeValue(key): delete this._value[key]
removeValue(value, key) == [k \in DOMAIN value \ {key} |-> value[k]]

\* A lookup that asks the parent before the object itself.
RECURSIVE getValueParentFirst(_, _, _, _)
getValueParentFirst(parent, value, id, key) ==
    LET above == IF parent[id] # 0
                 THEN getValueParentFirst(parent, value, parent[id], key)
                 ELSE [undefined |-> TRUE]
    IN IF above # [undefined |-> TRUE] THEN above
       ELSE IF key \in DOMAIN value[id] THEN [value |-> value[id][key]]
       ELSE above

\* Context.getValue(key) of the object id.
RECURSIVE getValue(_, _, _, _)
getValue(parent, value, id, key) ==
    IF key \in DOMAIN value[id] THEN [value |-> value[id][key]]
    ELSE IF parent[id] # 0 THEN getValue(parent, value, parent[id], key)
    ELSE Undefined

\* Context.collectAllValues() of the object id.
RECURSIVE collectAllValues(_, _, _)
collectAllValues(parent, value, id) ==
    LET result == IF parent[id] # 0
                  THEN collectAllValues(parent, value, parent[id])
                  ELSE NoValues
    IN [k \in DOMAIN result \cup DOMAIN value[id] |->
           IF k \in DOMAIN value[id] THEN value[id][k] ELSE result[k]]

\* A lookup that never fails.
getContextValuesContainerAny(registered, contextId) == [value |-> contextId]

\* ContextKeyService.getContextValuesContainer(contextId)
getContextValuesContainer(registered, contextId) ==
    IF contextId \in registered THEN [value |-> contextId]
    ELSE UnknownContext(contextId)

\* ContextKeyService.setContext(key, value): the values of the objects after.
setContext(registered, value, key, v) ==
    IF 1 \in registered THEN [value EXCEPT ![1] = setValue(value[1], key, v)]
    ELSE value

\* ContextKeyService.removeContext(key)
removeContext(registered, value, key) ==
    IF 1 \in registered THEN [value EXCEPT ![1] = removeValue(value[1], key)]
    ELSE value

\* ContextKeyService.getContextKeyValue(key)
getContextKeyValue(registered, parent, value, key) ==
    IF 1 \in registered THEN getValue(parent, value, 1, key) ELSE Undefined

\* ContextKey.reset()
reset(registered, value, contextKey) ==
    IF contextKey.defaultValue = Undefined
    THEN removeContext(registered, value, contextKey.key)
    ELSE setContext(registered, value, contextKey.key, contextKey.defaultValue.value)

\* The constructor of ContextKeyService: the root context, id 1.
ContextInit ==
    /\ lastContextId = 1
    /\ contexts = {1}
    /\ contextParent = <<0>>
    /\ contextValue = <<NoValues>>
    /\ contextKeys = {}
    /\ ctxResult = [op |-> "none"]

\* The Context objects there are.
ContextObjects == 1..lastContextId

\* createChildContext(parentContextId)
CreateChildContext ==
    \E parentContextId \in 1..MaxContextId :
        LET parent == getContextValuesContainer(contexts, parentContextId)
        IN IF IsError(parent)
           THEN /\ ctxResult' = [op |-> "createChildContext",
                                 contextId |-> parentContextId, result |-> parent]
                /\ UNCHANGED <<lastContextId, contexts, contextParent,
                               contextValue, contextKeys>>
           ELSE /\ lastContextId < MaxContextId
                /\ lastContextId' = lastContextId + 1
                /\ contexts' = contexts \cup {lastContextId + 1}
                /\ contextParent' = Append(contextParent, parent.value)
                /\ contextValue' = Append(contextValue, NoValues)
                /\ ctxResult' = [op |-> "createChildContext",
                                 contextId |-> parentContextId,
                                 result |-> [value |-> lastContextId + 1]]
                /\ UNCHANGED contextKeys

\* disposeContext(contextId)
DisposeContext ==
    \E contextId \in 1..MaxContextId :
        /\ contexts' = contexts \ {contextId}
        /\ ctxResult' = [op |-> "disposeContext", contextId |-> contextId,
                         result |-> Undefined]
        /\ UNCHANGED <<lastContextId, contextParent, contextValue, contextKeys>>

\* getContextValuesContainer(contextId)
GetContextValuesContainer ==
    \E contextId \in 1..MaxContextId :
        /\ ctxResult' = [op |-> "getContextValuesContainer",
                         contextId |-> contextId,
                         result |-> getContextValuesContainer(contexts, contextId)]
        /\ UNCHANGED <<lastContextId, contexts, contextParent, contextValue,
                       contextKeys>>

\* context.setValue(key, value) on a Context object the caller holds; the
\* value written names the object it is written to.
SetValue ==
    \E id \in ContextObjects, key \in ContextKeyNames :
        /\ contextValue' = [contextValue EXCEPT
                               ![id] = setValue(contextValue[id], key, id)]
        /\ ctxResult' = [op |-> "setValue", result |-> [value |-> TRUE]]
        /\ UNCHANGED <<lastContextId, contexts, contextParent, contextKeys>>

\* context.removeValue(key)
RemoveValue ==
    \E id \in ContextObjects, key \in ContextKeyNames :
        /\ contextValue' = [contextValue EXCEPT
                               ![id] = removeValue(contextValue[id], key)]
        /\ ctxResult' = [op |-> "removeValue",
                         result |-> [value |-> key \in DOMAIN contextValue[id]]]
        /\ UNCHANGED <<lastContextId, contexts, contextParent, contextKeys>>

\* context.getValue(key)
GetValue ==
    \E id \in ContextObjects, key \in ContextKeyNames :
        /\ ctxResult' = [op |-> "getValue", contextId |-> id, key |-> key,
                         result |-> getValue(contextParent, contextValue, id, key)]
        /\ UNCHANGED <<lastContextId, contexts, contextParent, contextValue,
                       contextKeys>>

\* context.collectAllValues()
CollectAllValues ==
    \E id \in ContextObjects :
        /\ ctxResult' = [op |-> "collectAllValues", contextId |-> id,
                         result |-> [value |-> collectAllValues(contextParent,
                                                   contextValue, id)]]
        /\ UNCHANGED <<lastContextId, contexts, contextParent, contextValue,
                       contextKeys>>

\* service.setContext(key, value)
SetContext ==
    \E key \in ContextKeyNames, v \in ContextValues :
        /\ contextValue' = setContext(contexts, contextValue, key, v)
        /\ ctxResult' = [op |-> "setContext", key |-> key, value |-> v,
                         result |-> Undefined]
        /\ UNCHANGED <<lastContextId, contexts, contextParent, contextKeys>>

\* service.removeContext(key)
RemoveContext ==
    \E key \in ContextKeyNames :
        /\ contextValue' = removeContext(contexts, contextValue, key)
        /\ ctxResult' = [op |-> "removeContext", key |-> key, result |-> Undefined]
        /\ UNCHANGED <<lastContextId, contexts, contextParent, contextKeys>>

\* service.getContextKeyValue(key)
GetContextKeyValue ==
    \E key \in ContextKeyNames :
        /\ ctxResult' = [op |-> "getContextKeyValue", key |-> key,
                         result |-> getContextKeyValue(contexts, contextParent,
                                                       contextValue, key)]
        /\ UNCHANGED <<lastContextId, contexts, contextParent, contextValue,
                       contextKeys>>

\* service.createKey(key, defaultValue): the constructor of ContextKey ends
\* with this.reset().
CreateKey ==
    \E contextKey \in ContextKeyInputs :
        /\ contextKeys' = contextKeys \cup {contextKey}
        /\ contextValue' = reset(contexts, contextValue, contextKey)
        /\ ctxResult' = [op |-> "createKey", contextKey |-> contextKey,
                         result |-> [value |-> contextKey]]
        /\ UNCHANGED <<lastContextId, contexts, contextParent>>

\* contextKey.set(value)
KeySet ==
    \E contextKey \in contextKeys, v \in ContextValues :
        /\ contextValue' = setContext(contexts, contextValue, contextKey.key, v)
        /\ ctxResult' = [op |-> "set", contextKey |-> contextKey, value |-> v,
                         result |-> Undefined]
        /\ UNCHANGED <<lastContextId, contexts, contextParent, contextKeys>>

\* contextKey.reset()
KeyReset ==
    \E contextKey \in contextKeys :
        /\ contextValue' = reset(contexts, contextValue, contextKey)
        /\ ctxResult' = [op |-> "reset", contextKey |-> contextKey,
                         result |-> Undefined]
        /\ UNCHANGED <<lastContextId, contexts, contextParent, contextKeys>>

\* contextKey.get()
KeyGet ==
    \E contextKey \in contextKeys :
        /\ ctxResult' = [op |-> "get", contextKey |-> contextKey,
                         result |-> getContextKeyValue(contexts, contextParent,
                                        contextValue, contextKey.key)]
        /\ UNCHANGED <<lastContextId, contexts, contextParent, contextValue,
                       contextKeys>>

\* The context tree: contexts are created and disposed, and the Context
\* objects are written and read.
NextContext ==
    \/ CreateChildContext /\ UNCHANGED <<varsTfIdf, varsStorage, varsIndexing, varsCache,
                   varsPrompt, varsDirect, varsGatherer, varsLate>>
    \/ DisposeContext /\ UNCHANGED <<varsTfIdf, varsStorage, varsIndexing, varsCache,
                   varsPrompt, varsDirect, varsGatherer, varsLate>>
    \/ SetValue /\ UNCHANGED <<varsTfIdf, varsStorage, varsIndexing, varsCache,
                   varsPrompt, varsDirect, varsGatherer, varsLate>>
    \/ RemoveValue /\ UNCHANGED <<varsTfIdf, varsStorage, varsIndexing, varsCache,
                   varsPrompt, varsDirect, varsGatherer, varsLate>>
    \/ GetValue /\ UNCHANGED <<varsTfIdf, varsStorage, varsIndexing, varsCache,
                   varsPrompt, varsDirect, varsGatherer, varsLate>>
    \/ CollectAllValues /\ UNCHANGED <<varsTfIdf, varsStorage, varsIndexing, varsCache,
                   varsPrompt, varsDirect, varsGatherer, varsLate>>

\* The service and its context keys: contexts are created, looked up and
\* disposed, and the root context is written and read through the service
\* and through ContextKey objects.
NextContextKey ==
    \/ CreateChildContext /\ UNCHANGED <<varsTfIdf, varsStorage, varsIndexing, varsCache,
                   varsPrompt, varsDirect, varsGatherer, varsLate>>
    \/ DisposeContext /\ UNCHANGED <<varsTfIdf, varsStorage, varsIndexing, varsCache,
                   varsPrompt, varsDirect, varsGatherer, varsLate>>
    \/ GetContextValuesContainer
         /\ UNCHANGED <<varsTfIdf, varsStorage, varsIndexing, varsCache,
                   varsPrompt, varsDirect, varsGatherer, varsLate>>
    \/ SetContext /\ UNCHANGED <<varsTfIdf, varsStorage, varsIndexing, varsCache,
                   varsPrompt, varsDirect, varsGatherer, varsLate>>
    \/ RemoveContext /\ UNCHANGED <<varsTfIdf, varsStorage, varsIndexing, varsCache,
                   varsPrompt, varsDirect, varsGatherer, varsLate>>
    \/ GetContextKeyValue /\ UNCHANGED <<varsTfIdf, varsStorage, varsIndexing, varsCache,
                   varsPrompt, varsDirect, varsGatherer, varsLate>>
    \/ CreateKey /\ UNCHANGED <<varsTfIdf, varsStorage, varsIndexing, varsCache,
                   varsPrompt, varsDirect, varsGatherer, varsLate>>
    \/ KeySet /\ UNCHANGED <<varsTfIdf, varsStorage, varsIndexing, varsCache,
                   varsPrompt, varsDirect, varsGatherer, varsLate>>
    \/ KeyReset /\ UNCHANGED <<varsTfIdf, varsStorage, varsIndexing, varsCache,
                   varsPrompt, varsDirect, varsGatherer, varsLate>>
    \/ KeyGet /\ UNCHANGED <<varsTfIdf, varsStorage, varsIndexing, varsCache,
                   varsPrompt, varsDirect, varsGatherer, varsLate>>

----------------------------------------------------------------------------
(* CacheStrategy over its MemoryStorage backends.                          *)
(*                                                                         *)
(* One call runs at a time and takes no time: Date.now() reads cacheNow,   *)
(* which moves between calls.  The policy carries its own                  *)
(* priorityFunction, data => data.lastAccessTime, and set is called        *)
(* without the optional priority; accessCount, which only the default      *)
(* priority function reads, is left out of the metadata.                   *)

\* Latest time Date.now() reads.
MaxTime == 3

CacheKeys == {"a", "b"}

\* What is cached: strings of two characters and of one.
CacheData == { <<"x", "x">>, <<"y">> }

\* The policies and backends a CacheStrategy is constructed with.
CacheConfigs ==
    { [maxAge |-> 1, maxSize |-> 6, maxItems |-> 1, persistent |-> TRUE],
      [maxAge |-> 1, maxSize |-> 6, maxItems |-> 2, persistent |-> TRUE],
      [maxAge |-> 2, maxSize |-> 6, maxItems |-> 4, persistent |-> FALSE] }

\* this.policy.priorityFunction(metadata)
priorityFunction(policy, data) == data.lastAccessTime

\* calculateSize(data) for a string: data.length * 2
calculateSize(data) == Len(data) * 2

\* MemoryStorage.set(key, value)
storageSet(store, key, value) ==
    [k \in DOMAIN store \cup {key} |-> IF k = key THEN value ELSE store[k]]

\* MemoryStorage.delete(key)
storageDelete(store, key) == [k \in DOMAIN store \ {key} |-> store[k]]

\* MemoryStorage.get(key): the value, or undefined.
storageGet(store, key) ==
    IF key \in DOMAIN store THEN [value |-> store[key]] ELSE Undefined

\* The three maps of a CacheStrategy.
Cache == [metadata |-> cacheMetadata, shortTerm |-> shortTermCache,
          persistent |-> persistentCache]

\* CacheStrategy.delete(key)
cacheDelete(c, key) ==
    [metadata |-> MapDelete(c.metadata, key),
     shortTerm |-> storageDelete(c.shortTerm, key),
     persistent |-> storageDelete(c.persistent, key)]

RECURSIVE DeleteAll(_, _)
DeleteAll(c, keys) ==
    IF keys = <<>> THEN c ELSE DeleteAll(cacheDelete(c, Head(keys)), Tail(keys))

\* A sort by priority that puts the highest first.
RECURSIVE InsertByPriorityDescending(_, _)
InsertByPriorityDescending(sorted, item) ==
    IF sorted = <<>> THEN <<item>>
    ELSE IF Head(sorted).priority >= item.priority
         THEN <<Head(sorted)>> \o InsertByPriorityDescending(Tail(sorted), item)
         ELSE <<item>> \o sorted

\* itemsWithPriority.sort((a, b) => a[1] - b[1]): ascending and stable.
RECURSIVE InsertByPriority(_, _)
InsertByPriority(sorted, item) ==
    IF sorted = <<>> THEN <<item>>
    ELSE IF Head(sorted).priority <= item.priority
         THEN <<Head(sorted)>> \o InsertByPriority(Tail(sorted), item)
         ELSE <<item>> \o sorted

\* The keys of the tracked entries by ascending priority.
itemsWithPriority(policy, metadata) ==
    LET items == [i \in 1..Len(metadata) |->
                     [key |-> metadata[i].key,
                      priority |-> priorityFunction(policy, metadata[i].value)]]
        sorted == FoldSeq(InsertByPriority, <<>>, items)
    IN [i \in 1..Len(sorted) |-> sorted[i].key]

\* enforceCachePolicy()
enforceCachePolicy(c, policy, now) ==
    LET expired == SelectSeq(c.metadata,
                             LAMBDA e : now - e.value.timestamp > policy.maxAge)
        expiredKeys == [i \in 1..Len(expired) |-> expired[i].key]
        kept == DeleteAll(c, expiredKeys)
        numToEvict == Len(kept.metadata) - policy.maxItems
    IN IF Len(kept.metadata) <= policy.maxItems THEN kept
       ELSE DeleteAll(kept, Slice(itemsWithPriority(policy, kept.metadata),
                                  numToEvict))

\* set(key, data)
cacheSet(c, config, now, key, data) ==
    LET contextData == [id |-> key, timestamp |-> now, lastAccessTime |-> now,
                        size |-> calculateSize(data)]
    IN enforceCachePolicy(
           [metadata |-> MapSet(c.metadata, key, contextData),
            shortTerm |-> storageSet(c.shortTerm, key, data),
            persistent |-> IF config.persistent
                           THEN storageSet(c.persistent, key, data)
                           ELSE c.persistent],
           config, now)

\* get(key): the cache after the call and what the call returns.
cacheGet(c, config, now, key) ==
    LET metadata ==
            IF MapHas(c.metadata, key)
            THEN MapSet(c.metadata, key,
                        [MapGet(c.metadata, key) EXCEPT !.lastAccessTime = now])
            ELSE c.metadata
        found == storageGet(c.shortTerm, key)
        data == IF found = Undefined /\ config.persistent
                THEN storageGet(c.persistent, key) ELSE found
    IN [cache |-> [metadata |-> metadata,
                   shortTerm |-> IF found = Undefined /\ data # Undefined
                                 THEN storageSet(c.shortTerm, key, data.value)
                                 ELSE c.shortTerm,
                   persistent |-> c.persistent],
        result |-> data]

\* has(key)
cacheHas(c, config, key) ==
    \/ key \in DOMAIN c.shortTerm
    \/ config.persistent /\ key \in DOMAIN c.persistent

\* preloadProbable(keys)
RECURSIVE preloadProbable(_, _, _)
preloadProbable(c, config, keys) ==
    IF ~config.persistent \/ keys = <<>> THEN c
    ELSE LET key == Head(keys)
             data == storageGet(c.persistent, key)
         IN preloadProbable(
                IF key \notin DOMAIN c.shortTerm /\ data # Undefined
                THEN [c EXCEPT !.shortTerm = storageSet(@, key, data.value)]
                ELSE c,
                config, Tail(keys))

\* The candidates of evictUnlikely(): i runs while
\* i < Math.max(0, itemsWithPriority.length - this.policy.maxItems / 2).
candidatesForEviction(policy, metadata) ==
    LET twice == 2 * Len(metadata) - policy.maxItems
    IN Slice(itemsWithPriority(policy, metadata),
             IF twice <= 0 THEN 0 ELSE (twice + 1) \div 2)

\* evictUnlikely()
RECURSIVE EvictAll(_, _, _)
EvictAll(c, now, keys) ==
    IF keys = <<>> THEN c
    ELSE LET key == Head(keys)
         IN EvictAll(
                [c EXCEPT
                    !.shortTerm = storageDelete(@, key),
                    !.metadata =
                        IF MapHas(@, key)
                        THEN MapSet(@, key, [MapGet(@, key) EXCEPT !.timestamp = now])
                        ELSE @],
                now, Tail(keys))

\* An eviction that deletes its candidates from every store.
evictUnlikelyEverywhere(c, policy, now) ==
    DeleteAll(c, candidatesForEviction(policy, c.metadata))

evictUnlikely(c, policy, now) ==
    EvictAll(c, now, candidatesForEviction(policy, c.metadata))

\* Before a CacheStrategy is constructed.
CacheInit ==
    /\ cacheConfig = Null
    /\ cacheMetadata = <<>>
    /\ shortTermCache = NoValues
    /\ persistentCache = NoValues
    /\ cacheNow = 0
    /\ cacheResult = [op |-> "none"]
    /\ cacheSetAt = NoValues

\* The maps after a call, and the times of the sets behind the entries that
\* are still tracked.
SetCache(c, setAt) ==
    /\ cacheMetadata' = c.metadata
    /\ shortTermCache' = c.shortTerm
    /\ persistentCache' = c.persistent
    /\ cacheSetAt' = [k \in DOMAIN setAt \cap MapKeys(c.metadata) |-> setAt[k]]

\* new CacheStrategy(policy, undefined, persistentStorage?)
NewCacheStrategy ==
    /\ cacheConfig = Null
    /\ cacheConfig' \in CacheConfigs
    /\ UNCHANGED <<cacheMetadata, shortTermCache, persistentCache, cacheNow,
                   cacheResult, cacheSetAt>>

\* set(key, data)
CacheSet ==
    /\ cacheConfig # Null
    /\ \E key \in CacheKeys, data \in CacheData :
        /\ SetCache(cacheSet(Cache, cacheConfig, cacheNow, key, data),
                    storageSet(cacheSetAt, key, cacheNow))
        /\ cacheResult' = [op |-> "set", key |-> key]
        /\ UNCHANGED <<cacheConfig, cacheNow>>

\* get(key)
CacheGet ==
    /\ cacheConfig # Null
    /\ \E key \in CacheKeys :
        /\ LET got == cacheGet(Cache, cacheConfig, cacheNow, key)
           IN /\ SetCache(got.cache, cacheSetAt)
              /\ cacheResult' = [op |-> "get", key |-> key, result |-> got.result]
        /\ UNCHANGED <<cacheConfig, cacheNow>>

\* has(key)
CacheHas ==
    /\ cacheConfig # Null
    /\ \E key \in CacheKeys :
        /\ cacheResult' = [op |-> "has", key |-> key,
                           result |-> [value |-> cacheHas(Cache, cacheConfig, key)]]
        /\ UNCHANGED <<cacheConfig, cacheMetadata, shortTermCache,
                       persistentCache, cacheNow, cacheSetAt>>

\* delete(key)
CacheDelete ==
    /\ cacheConfig # Null
    /\ \E key \in CacheKeys :
        /\ SetCache(cacheDelete(Cache, key), cacheSetAt)
        /\ cacheResult' = [op |-> "delete"]
        /\ UNCHANGED <<cacheConfig, cacheNow>>

\* clear()
CacheClear ==
    /\ cacheConfig # Null
    /\ SetCache([metadata |-> <<>>, shortTerm |-> NoValues,
                 persistent |-> NoValues], cacheSetAt)
    /\ cacheResult' = [op |-> "clear"]
    /\ UNCHANGED <<cacheConfig, cacheNow>>

\* preloadProbable(keys)
PreloadProbable ==
    /\ cacheConfig # Null
    /\ \E keys \in {<<k>> : k \in CacheKeys} :
        /\ SetCache(preloadProbable(Cache, cacheConfig, keys), cacheSetAt)
        /\ cacheResult' = [op |-> "preloadProbable"]
        /\ UNCHANGED <<cacheConfig, cacheNow>>

\* evictUnlikely()
EvictUnlikely ==
    /\ cacheConfig # Null
    /\ SetCache(evictUnlikely(Cache, cacheConfig, cacheNow), cacheSetAt)
    /\ cacheResult' = [op |-> "evictUnlikely",
                       evicted |-> Range(candidatesForEviction(cacheConfig,
                                                               cacheMetadata))]
    /\ UNCHANGED <<cacheConfig, cacheNow>>

\* Time passes between two calls.
TimePasses ==
    /\ cacheConfig # Null
    /\ cacheNow < MaxTime
    /\ cacheNow' = cacheNow + 1
    /\ UNCHANGED <<cacheConfig, cacheMetadata, shortTermCache, persistentCache,
                   cacheResult, cacheSetAt>>

NextCache ==
    \/ NewCacheStrategy
         /\ UNCHANGED <<varsTfIdf, varsStorage, varsIndexing, varsContext,
                   varsPrompt, varsDirect, varsGatherer, varsLate>>
    \/ CacheSet /\ UNCHANGED <<varsTfIdf, varsStorage, varsIndexing, varsContext,
                   varsPrompt, varsDirect, varsGatherer, varsLate>>
    \/ CacheGet /\ UNCHANGED <<varsTfIdf, varsStorage, varsIndexing, varsContext,
                   varsPrompt, varsDirect, varsGatherer, varsLate>>
    \/ CacheHas /\ UNCHANGED <<varsTfIdf, varsStorage, varsIndexing, varsContext,
                   varsPrompt, varsDirect, varsGatherer, varsLate>>
    \/ CacheDelete /\ UNCHANGED <<varsTfIdf, varsStorage, varsIndexing, varsContext,
                   varsPrompt, varsDirect, varsGatherer, varsLate>>
    \/ CacheClear /\ UNCHANGED <<varsTfIdf, varsStorage, varsIndexing, varsContext,
                   varsPrompt, varsDirect, varsGatherer, varsLate>>
    \/ PreloadProbable
         /\ UNCHANGED <<varsTfIdf, varsStorage, varsIndexing, varsContext,
                   varsPrompt, varsDirect, varsGatherer, varsLate>>
    \/ EvictUnlikely
         /\ UNCHANGED <<varsTfIdf, varsStorage, varsIndexing, varsContext,
                   varsPrompt, varsDirect, varsGatherer, varsLate>>
    \/ TimePasses /\ UNCHANGED <<varsTfIdf, varsStorage, varsIndexing, varsContext,
                   varsPrompt, varsDirect, varsGatherer, varsLate>>

----------------------------------------------------------------------------
(* PromptBuilder called directly with the snippets of its caller.          *)

\* Most snippets a context carries.
MaxSnippets == 3

\* Templates a PromptBuilder is constructed with: none, and one whose user
\* message has a place for the context.
PromptTemplates ==
    { DefaultTemplate,
      [DefaultTemplate EXCEPT
          !.userMessageTemplate = <<"{{context}}", "\n", "{{query}}">>] }

\* Snippets of one word and of two, each at two relevances.
CodeSnippets ==
    { [content |-> content, startLine |-> 0, endLine |-> 0,
       relevance |-> relevance, type |-> 0,
       metadata |-> [fileName |-> <<"a", "ts">>, language |-> "typescript"]] :
        content \in { <<"short">>, <<"two", " ", "words">> },
        relevance \in { Score(1, 2), Score(1, 1) } }

\* modelCapabilities: absent; a context window that leaves room for 11, 12
\* or 25 tokens of context beside the default output; one for a model
\* without a system role; and windows of 512 and 612 with maxOutputTokens
\* given as 0 and as 100.
ModelCapabilities ==
    { Null }
    \cup { [contextWindow |-> w, supportsSystemMessage |-> TRUE] :
               w \in {1511, 1512, 1525} }
    \cup { [contextWindow |-> 1525, supportsSystemMessage |-> FALSE] }
    \cup { [contextWindow |-> 512 + m, supportsSystemMessage |-> TRUE,
            maxOutputTokens |-> m] : m \in {0, 100} }

PromptContexts ==
    { [query |-> <<"why?">>, codeSnippets |-> snippets,
       modelCapabilities |-> capabilities] :
        snippets \in SeqsUpTo(CodeSnippets, MaxSnippets),
        capabilities \in ModelCapabilities }

\* Before a PromptBuilder is constructed.
PromptInit ==
    /\ promptTemplate = Null
    /\ promptResult = Null

\* new PromptBuilder(template)
NewPromptBuilder ==
    /\ promptTemplate = Null
    /\ promptTemplate' \in PromptTemplates
    /\ UNCHANGED promptResult

\* buildPrompt(context), once on each builder: the call reads this.template
\* and writes nothing.
BuildPrompt ==
    \E context \in PromptContexts :
        /\ promptTemplate # Null
        /\ promptResult = Null
        /\ promptResult' =
               [context |-> context,
                result |-> promptBuilderBuildPrompt(promptTemplate, context)]
        /\ UNCHANGED promptTemplate

NextPrompt ==
    \/ NewPromptBuilder
         /\ UNCHANGED <<varsTfIdf, varsStorage, varsIndexing, varsContext, varsCache,
                      varsDirect, varsGatherer, varsLate>>
    \/ BuildPrompt
         /\ UNCHANGED <<varsTfIdf, varsStorage, varsIndexing, varsContext, varsCache,
                      varsDirect, varsGatherer, varsLate>>

----------------------------------------------------------------------------
(* ContextRanker.rankItems.  A factor is 0 or 1, a weight a number of      *)
(* hundredths, a score a fraction.  Math.exp is kept to three decimals.    *)

\* Most items a call ranks.
MaxItems == 3

\* The options of the constructor: its defaults, each normalization
\* strategy, and a minScore of 0 or of 0.2.
RankerOptions ==
    { [tfIdfWeight |-> 40, fuzzyWeight |-> 20, proximityWeight |-> 15,
       semanticWeight |-> 15, astWeight |-> 10, minScore |-> minScore,
       normalizationStrategy |-> strategy] :
        minScore \in { Score(0, 1), Score(1, 5) },
        strategy \in { "minMax", "softmax", "none" } }

\* What scoreFn returns for an item: no factor, the sparse one, or all.
RankingFactors ==
    { [tfIdfScore |-> t, fuzzyScore |-> o, proximityScore |-> o,
       semanticScore |-> o, astRelevance |-> o] :
        <<t, o>> \in { <<0, 0>>, <<1, 0>>, <<1, 1>> } }

\* calculateWeightedScore(factors)
calculateWeightedScore(options, factors) ==
    Score(factors.tfIdfScore * options.tfIdfWeight
          + factors.fuzzyScore * options.fuzzyWeight
          + factors.proximityScore * options.proximityWeight
          + factors.semanticScore * options.semanticWeight
          + factors.astRelevance * options.astWeight, 100)

\* a - b and a / b for scores
ScoreMinus(a, b) == Score(a.num * b.den - b.num * a.den, a.den * b.den)

ScoreOver(a, b) == Score(a.num * b.den, a.den * b.num)

\* Math.min(...scores), Math.max(...scores) of a non-empty list
MinScoreOf(items) ==
    LET i == CHOOSE i \in DOMAIN items :
                 \A j \in DOMAIN items : ScoreGeq(items[j].score, items[i].score)
    IN items[i].score

MaxScoreOf(items) ==
    LET i == CHOOSE i \in DOMAIN items :
                 \A j \in DOMAIN items : ScoreGeq(items[i].score, items[j].score)
    IN items[i].score

\* Math.exp(score) in thousandths, for the scores 0, 0.4 and 1.
ExpThousandths(score) ==
    IF score.num = 0 THEN 1000
    ELSE IF score.num = score.den THEN 2718
    ELSE 1492

\* normalizeScores(items)
normalizeScores(options, items) ==
    IF Len(items) = 0 THEN <<>>
    ELSE IF options.normalizationStrategy = "minMax"
    THEN LET min == MinScoreOf(items)
             max == MaxScoreOf(items)
         IN [i \in DOMAIN items |->
                [items[i] EXCEPT !.score =
                    IF max = min THEN Score(1, 1)
                    ELSE ScoreOver(ScoreMinus(@, min), ScoreMinus(max, min))]]
    ELSE IF options.normalizationStrategy = "softmax"
    THEN LET expScores == [i \in DOMAIN items |-> ExpThousandths(items[i].score)]
             sumExp == SumTo(expScores, Len(items))
         IN [i \in DOMAIN items |->
                [items[i] EXCEPT !.score = Score(expScores[i], sumExp)]]
    ELSE items

\* rankItems(items, query, scoreFn, token): an item is its position, factors
\* is what scoreFn answers for each, and the token is cancelled before the
\* call (cancelledFrom 0), while scoreFn runs for item cancelledFrom, or not
\* at all (cancelledFrom beyond the items).
rankItems(options, factors, cancelledFrom) ==
    IF cancelledFrom < Len(factors) THEN <<>>
    ELSE LET scoredItems ==
                 [i \in DOMAIN factors |->
                     [item |-> i,
                      score |-> calculateWeightedScore(options, factors[i]),
                      factors |-> factors[i]]]
             normalizedItems == normalizeScores(options, scoredItems)
             filteredItems ==
                 SelectSeq(normalizedItems,
                           LAMBDA item : ScoreGeq(item.score, options.minScore))
         IN SortByScore(filteredItems)

\* No call made yet on a component without state.
DirectInit == lastCall = Null

\* new ContextRanker(options).rankItems(items, query, scoreFn, token)
RankItems ==
    \E options \in RankerOptions, factors \in SeqsUpTo(RankingFactors, MaxItems) :
        \E cancelledFrom \in 0..Len(factors) :
            /\ lastCall = Null
            /\ lastCall' = [op |-> "rankItems", options |-> options,
                            factors |-> factors, cancelledFrom |-> cancelledFrom,
                            result |-> rankItems(options, factors, cancelledFrom)]

NextRanker ==
    RankItems /\ UNCHANGED <<varsTfIdf, varsStorage, varsIndexing, varsContext,
                             varsCache, varsPrompt, varsGatherer, varsLate>>

----------------------------------------------------------------------------
(* The chunking strategies called directly, without a token.  The while    *)
(* loop of the fixed-size strategy is taken one pass at a time.            *)

\* Longest content chunked.
MaxContentLength == 4

\* Most passes through the while loop that are followed.
MaxPasses == 4

\* What is chunked: letters, spaces and full stops.
ChunkedContents == SeqsUpTo({"a", " ", "."}, MaxContentLength)

\* The options of a strategy, completed by the constructor; minChunkSize
\* is options.minChunkSize || 100.
StrategyOptions ==
    { [maxChunkSize |-> 2, minChunkSize |-> 1, overlap |-> 0],
      [maxChunkSize |-> 2, minChunkSize |-> 2, overlap |-> 1],
      [maxChunkSize |-> 3, minChunkSize |-> 1, overlap |-> 0],
      [maxChunkSize |-> 2, minChunkSize |-> DefaultMinChunkSize,
       overlap |-> DefaultOverlap] }

\* No metadata is given.
NoMetadata == [k \in {} |-> 0]

\* new FixedSizeChunkingStrategy(options).chunk(content), up to the while
\* loop.
FixedSizeChunkCall ==
    \E content \in ChunkedContents, opts \in StrategyOptions :
        /\ lastCall = Null
        /\ lastCall' =
               IF Len(content) <= opts.maxChunkSize
               THEN [op |-> "fixedSize", content |-> content, options |-> opts,
                     currentPosition |-> 0,
                     chunks |-> FixedSizeChunk(content, NoMetadata, opts, FALSE),
                     returned |-> TRUE]
               ELSE [op |-> "fixedSize", content |-> content, options |-> opts,
                     currentPosition |-> 0, chunks |-> <<>>, returned |-> FALSE]

\* One pass through the while loop, or the return when its condition fails.
FixedSizePass ==
    /\ lastCall # Null
    /\ lastCall.op = "fixedSize"
    /\ ~lastCall.returned
    /\ IF lastCall.currentPosition < Len(lastCall.content)
       THEN /\ Len(lastCall.chunks) < MaxPasses
            /\ LET pass == FixedSizeIteration(lastCall.content, NoMetadata,
                                              lastCall.options,
                                              lastCall.currentPosition,
                                              Len(lastCall.chunks))
               IN lastCall' =
                      [lastCall EXCEPT
                          !.chunks = Append(@, pass.chunk),
                          !.currentPosition =
                              pass.endPosition - lastCall.options.overlap]
       ELSE lastCall' = [lastCall EXCEPT !.returned = TRUE]

\* new SemanticChunkingStrategy(options).chunk(content)
SemanticChunkCall ==
    \E content \in ChunkedContents, opts \in StrategyOptions :
        /\ lastCall = Null
        /\ lastCall' = [op |-> "semantic", content |-> content, options |-> opts,
                        chunks |-> SemanticChunk(content, NoMetadata,
                                                 opts.maxChunkSize, FALSE),
                        returned |-> TRUE]

NextChunking ==
    \/ FixedSizeChunkCall
         /\ UNCHANGED <<varsTfIdf, varsStorage, varsIndexing, varsContext,
                        varsCache, varsPrompt, varsGatherer, varsLate>>
    \/ FixedSizePass
         /\ UNCHANGED <<varsTfIdf, varsStorage, varsIndexing, varsContext,
                        varsCache, varsPrompt, varsGatherer, varsLate>>
    \/ SemanticChunkCall
         /\ UNCHANGED <<varsTfIdf, varsStorage, varsIndexing, varsContext,
                        varsCache, varsPrompt, varsGatherer, varsLate>>

----------------------------------------------------------------------------
(* ASTChunkingStrategy.chunk, called directly.                             *)

\* Longest content given to the AST strategy.
MaxASTContentLength == 3

\* What is chunked: letters and newlines.
ASTContents == SeqsUpTo({"a", "\n"}, MaxASTContentLength)

\* The metadata of the caller: none, a language, and a fallback key of its
\* own.
ASTMetadata ==
    { NoMetadata, [language |-> "javascript"], [fallback |-> FALSE] }

\* What the parser does with the content.
ParserAnswers(content) ==
    { ParseThrows, [ast |-> JavaScriptAST(content)],
      WalkThrows(JavaScriptAST(content)) }

ParserAnswerKind(parsed) ==
    IF parsed = ParseThrows THEN "parseThrows"
    ELSE IF "walkThrows" \in DOMAIN parsed THEN "walkThrows"
    ELSE "ast"

\* new ASTChunkingStrategy(parser, options).chunk(content, metadata, token);
\* the token is cancelled before the call, while the parser runs, or not
\* at all.
ASTChunkCall ==
    \E content \in ASTContents, metadata \in ASTMetadata,
       options \in ASTOptions, cancelled \in {"atStart", "parsing", "never"} :
        \E parsed \in ParserAnswers(content) :
            /\ lastCall = Null
            /\ lastCall' =
                   [op |-> "astChunk", content |-> content,
                    metadata |-> metadata, cancelled |-> cancelled,
                    parsed |-> ParserAnswerKind(parsed),
                    chunks |->
                        IF cancelled = "atStart" THEN <<>>
                        ELSE ASTChunkAfterParse(content, metadata,
                                 ASTMinChunkSize(options), parsed,
                                 cancelled = "parsing")]

NextASTChunking ==
    ASTChunkCall
      /\ UNCHANGED <<varsTfIdf, varsStorage, varsIndexing, varsContext,
                     varsCache, varsPrompt, varsGatherer, varsLate>>

----------------------------------------------------------------------------
(* LocalContextGatherer.  A text model is a language id and its lines, a   *)
(* line the sequence of its characters.                                    *)

\* The last line a position is taken at (lines are counted from 0).
MaxLine == 2

\* Two models of the same language: one with nested blocks, one flat and
\* shorter.
TextModels ==
    { [languageId |-> "typescript",
       lines |-> << <<"a">>, <<" ", "b">>, <<" ", " ", "c">> >>],
      [languageId |-> "typescript",
       lines |-> << <<"x">>, <<"y">> >>] }

Positions == [line : 0..MaxLine, column : {0}]

\* SnippetType
Exact == "Exact"

Nearby == "Nearby"

Parent == "Parent"

\* What the constructor is given: nothing, one snippet and one line each
\* way, a higher least relevance.
GathererOptions ==
    { [k \in {} |-> 0],
      [maxSnippets |-> 1, nearbyLinesAbove |-> 1, nearbyLinesBelow |-> 1],
      [minRelevance |-> Score(3, 4)] }

\* The constructor: the defaults, then ...options.
GathererDefaults ==
    [nearbyLinesAbove |-> 5, nearbyLinesBelow |-> 5, maxSnippets |-> 20,
     minRelevance |-> Score(1, 5)]

WithGathererDefaults(options) ==
    [k \in DOMAIN GathererDefaults |->
        IF k \in DOMAIN options THEN options[k] ELSE GathererDefaults[k]]

\* model.getLineCount() and model.getLineContent(lineNumber), 1-based; a
\* line the model does not have reads as the empty string.
getLineCount(model) == Len(model.lines)

getLineContent(model, lineNumber) ==
    IF lineNumber \in 1..Len(model.lines) THEN model.lines[lineNumber] ELSE <<>>

\* getCacheKey(model, pos)
getCacheKey(model, pos) == <<model.languageId, pos.line, pos.column>>

\* String.prototype.trimEnd()
RECURSIVE trimEnd(_)
trimEnd(str) ==
    IF str # <<>> /\ IsSpace(str[Len(str)])
    THEN trimEnd(SubSeq(str, 1, Len(str) - 1)) ELSE str

\* The loop of getContentForLines from line i on.
RECURSIVE ContentFrom(_, _, _)
ContentFrom(model, i, endLine) ==
    IF i > endLine THEN <<>>
    ELSE getLineContent(model, i + 1) \o <<"\n">>
         \o ContentFrom(model, i + 1, endLine)

getContentForLines(model, startLine, endLine) ==
    trimEnd(ContentFrom(model, startLine, endLine))

\* getExactPositionSnippet(model, pos), as the list of what it found.
getExactPositionSnippet(model, pos) ==
    IF pos.line < 0 \/ pos.line >= getLineCount(model) THEN <<>>
    ELSE << [content |-> getLineContent(model, pos.line + 1),
             startLine |-> pos.line, endLine |-> pos.line,
             relevance |-> Score(1, 1), type |-> Exact] >>

Max2(a, b) == IF a >= b THEN a ELSE b

Min2(a, b) == IF a <= b THEN a ELSE b

\* gatherNearbySnippets(model, pos, linesAbove, linesBelow, token)
gatherNearbySnippets(model, pos, linesAbove, linesBelow, cancelled) ==
    LET startLineAbove == Max2(0, pos.line - linesAbove)
        endLineBelow == Min2(getLineCount(model) - 1, pos.line + linesBelow)
        above == IF startLineAbove < pos.line
                 THEN << [content |-> getContentForLines(model, startLineAbove,
                                                         pos.line - 1),
                          startLine |-> startLineAbove,
                          endLine |-> pos.line - 1,
                          relevance |-> Score(8, 10), type |-> Nearby] >>
                 ELSE <<>>
        below == IF endLineBelow > pos.line
                 THEN << [content |-> getContentForLines(model, pos.line + 1,
                                                         endLineBelow),
                          startLine |-> pos.line + 1,
                          endLine |-> endLineBelow,
                          relevance |-> Score(7, 10), type |-> Nearby] >>
                 ELSE <<>>
    IN IF cancelled THEN <<>> ELSE above \o below

\* getIndentationLevel(line): the length of the leading whitespace.
RECURSIVE getIndentationLevel(_)
getIndentationLevel(line) ==
    IF line # <<>> /\ IsSpace(Head(line))
    THEN 1 + getIndentationLevel(Tail(line)) ELSE 0

\* The upward loop of gatherParentSnippets from line i on.
RECURSIVE ParentFrom(_, _, _, _)
ParentFrom(model, currentLine, currentIndentation, i) ==
    IF i < 0 THEN <<>>
    ELSE LET lineContent == getLineContent(model, i + 1)
         IN IF getIndentationLevel(lineContent) < currentIndentation
               /\ HasText(lineContent)
            THEN << [content |-> getContentForLines(model, i, currentLine),
                     startLine |-> i, endLine |-> currentLine,
                     relevance |-> Score(9, 10), type |-> Parent] >>
            ELSE ParentFrom(model, currentLine, currentIndentation, i - 1)

\* gatherParentSnippets(model, pos, token)
gatherParentSnippets(model, pos, cancelled) ==
    IF cancelled THEN <<>>
    ELSE ParentFrom(model, pos.line,
                    getIndentationLevel(getLineContent(model, pos.line + 1)),
                    pos.line - 1)

\* snippetCache as a function of the keys it holds.
NoSnippets == [k \in {} |-> <<>>]

CachePut(cache, key, snippets) ==
    [k \in DOMAIN cache \cup {key} |-> IF k = key THEN snippets ELSE cache[k]]

\* getCachedSnippets(model, pos): this.snippetCache.get(cacheKey) || []
getCachedSnippets(cache, model, pos) ==
    IF getCacheKey(model, pos) \in DOMAIN cache
    THEN cache[getCacheKey(model, pos)] ELSE <<>>

\* getAllContextSnippets past the cache: gather, sort, slice.
gatherAll(options, model, pos, cancelledNearby, cancelledParent) ==
    Slice(FoldSeq(InsertByRelevance, <<>>,
                  getExactPositionSnippet(model, pos)
                  \o gatherNearbySnippets(model, pos, options.nearbyLinesAbove,
                                          options.nearbyLinesBelow,
                                          cancelledNearby)
                  \o gatherParentSnippets(model, pos, cancelledParent)),
          options.maxSnippets)

GathererInit ==
    /\ gathererOptions = Null
    /\ snippetCache = NoSnippets
    /\ gathered = Null

\* new LocalContextGatherer(options)
NewLocalContextGatherer ==
    \E options \in GathererOptions :
        /\ gathererOptions = Null
        /\ gathererOptions' = WithGathererDefaults(options)
        /\ UNCHANGED <<snippetCache, gathered>>

\* updateCache(model, pos, token)
UpdateCache ==
    \E model \in TextModels, pos \in Positions, cancelled \in BOOLEAN :
        /\ gathererOptions # Null
        /\ snippetCache' =
               IF getCacheKey(model, pos) \in DOMAIN snippetCache
               THEN snippetCache
               ELSE CachePut(snippetCache, getCacheKey(model, pos),
                        getExactPositionSnippet(model, pos)
                        \o gatherNearbySnippets(model, pos,
                               gathererOptions.nearbyLinesAbove,
                               gathererOptions.nearbyLinesBelow, cancelled))
        /\ gathered' = [op |-> "updateCache", model |-> model, pos |-> pos]
        /\ UNCHANGED gathererOptions

\* getCachedSnippets(model, pos), called from outside.
GetCachedSnippets ==
    \E model \in TextModels, pos \in Positions :
        /\ gathererOptions # Null
        /\ gathered' = [op |-> "getCachedSnippets", model |-> model,
                        pos |-> pos,
                        result |-> getCachedSnippets(snippetCache, model, pos)]
        /\ UNCHANGED <<gathererOptions, snippetCache>>

\* getAllContextSnippets(model, pos, token); the token is cancelled before
\* the nearby lines are gathered, before the parents are, or not at all.
GetAllContextSnippets ==
    \E model \in TextModels, pos \in Positions,
       cancelled \in {"beforeNearby", "beforeParent", "never"} :
        LET cachedSnippets == getCachedSnippets(snippetCache, model, pos)
            result == gatherAll(gathererOptions, model, pos,
                                cancelled = "beforeNearby",
                                cancelled # "never")
        IN /\ gathererOptions # Null
           /\ IF Len(cachedSnippets) > 0
              THEN /\ gathered' = [op |-> "getAllContextSnippets",
                                   model |-> model, pos |-> pos,
                                   cancelled |-> cancelled, fromCache |-> TRUE,
                                   result |-> cachedSnippets]
                   /\ UNCHANGED snippetCache
              ELSE /\ gathered' = [op |-> "getAllContextSnippets",
                                   model |-> model, pos |-> pos,
                                   cancelled |-> cancelled, fromCache |-> FALSE,
                                   result |-> result]
                   /\ snippetCache' = CachePut(snippetCache,
                                               getCacheKey(model, pos), result)
           /\ UNCHANGED gathererOptions

\* clearCache()
ClearCache ==
    /\ gathererOptions # Null
    /\ snippetCache' = NoSnippets
    /\ gathered' = [op |-> "clearCache"]
    /\ UNCHANGED gathererOptions

NextGatherer ==
    \/ NewLocalContextGatherer
         /\ UNCHANGED <<varsTfIdf, varsStorage, varsIndexing, varsContext,
                        varsCache, varsPrompt, varsDirect, varsLate>>
    \/ UpdateCache
         /\ UNCHANGED <<varsTfIdf, varsStorage, varsIndexing, varsContext,
                        varsCache, varsPrompt, varsDirect, varsLate>>
    \/ GetCachedSnippets
         /\ UNCHANGED <<varsTfIdf, varsStorage, varsIndexing, varsContext,
                        varsCache, varsPrompt, varsDirect, varsLate>>
    \/ GetAllContextSnippets
         /\ UNCHANGED <<varsTfIdf, varsStorage, varsIndexing, varsContext,
                        varsCache, varsPrompt, varsDirect, varsLate>>
    \/ ClearCache
         /\ UNCHANGED <<varsTfIdf, varsStorage, varsIndexing, varsContext,
                        varsCache, varsPrompt, varsDirect, varsLate>>

----------------------------------------------------------------------------
(* CancellationTokenSource and its tokens.                                 *)

\* The sources there are.
NumSources == 2

Sources == 1..NumSources

\* CancellationToken.None and CancellationToken.Cancelled, the two frozen
\* tokens every source shares, and the MutableToken a source created.
TokenNone == [kind |-> "None"]

TokenCancelled == [kind |-> "Cancelled"]

MutableToken(source) == [kind |-> "MutableToken", source |-> source]

\* token.isCancellationRequested, given the _isCancelled of the mutable
\* tokens.
isCancellationRequested(isCancelled, tok) ==
    IF tok = TokenNone THEN FALSE
    ELSE IF tok = TokenCancelled THEN TRUE
    ELSE isCancelled[tok.source]

SourceInit ==
    /\ sourceToken = [s \in Sources |-> Undefined]
    /\ tokenIsCancelled = [s \in Sources |-> FALSE]
    /\ obtained = [s \in Sources |-> {}]
    /\ cancelCalled = [s \in Sources |-> FALSE]

\* get token(): the token is created on the first read.
GetToken ==
    \E s \in Sources :
        LET tok == IF sourceToken[s] = Undefined THEN MutableToken(s)
                   ELSE sourceToken[s]
        IN /\ sourceToken' = [sourceToken EXCEPT ![s] = tok]
           /\ obtained' = [obtained EXCEPT ![s] = @ \cup {tok}]
           /\ UNCHANGED <<tokenIsCancelled, cancelCalled>>

\* cancel()
SourceCancel ==
    \E s \in Sources :
        /\ sourceToken' =
               IF sourceToken[s] = Undefined
               THEN [sourceToken EXCEPT ![s] = TokenCancelled]
               ELSE sourceToken
        /\ tokenIsCancelled' =
               IF sourceToken[s] = MutableToken(s)
               THEN [tokenIsCancelled EXCEPT ![s] = TRUE]
               ELSE tokenIsCancelled
        /\ cancelCalled' = [cancelCalled EXCEPT ![s] = TRUE]
        /\ UNCHANGED obtained

\* dispose(): MutableToken.dispose does nothing.
SourceDispose ==
    \E s \in Sources :
        /\ sourceToken' = [sourceToken EXCEPT ![s] = TokenNone]
        /\ UNCHANGED <<tokenIsCancelled, obtained, cancelCalled>>

NextSource ==
    \/ GetToken /\ UNCHANGED varsButSource
    \/ SourceCancel /\ UNCHANGED varsButSource
    \/ SourceDispose /\ UNCHANGED varsButSource

----------------------------------------------------------------------------
(* LazyValue.  Each get() or load() is a call that runs to its await in    *)
(* one step and is resumed in another once the promise it waits for has    *)
(* settled; each invocation of loadFn is a promise that settles on its own. *)

\* The get() and load() calls that are made.
NumLazyCalls == 3

\* Most invocations of loadFn.
MaxLoads == 2

LazyCalls == 1..NumLazyCalls

\* What loadFn's promise may settle with: a value, undefined, or a failure.
LoadPending == [pending |-> TRUE]

LoadFailed == [error |-> "load failed"]

LoadOutcomes == { [value |-> 1], [value |-> 2], Undefined, LoadFailed }

NotCalled == [pc |-> "notCalled"]

LazyInit ==
    /\ lazyValue = Undefined
    /\ lazyLoading = Null
    /\ lazyLoads = <<>>
    /\ lazyCalls = [c \in LazyCalls |-> NotCalled]
    /\ lazyInvalidated = FALSE

\* isLoaded()
isLoaded(value) == value # Undefined

\* A call that starts a load: this.loading = this.loadFn(), then the await.
StartsLoad(c, kind) ==
    /\ Len(lazyLoads) < MaxLoads
    /\ lazyLoads' = Append(lazyLoads, LoadPending)
    /\ lazyLoading' = [promise |-> Len(lazyLoads) + 1]
    /\ lazyCalls' = [lazyCalls EXCEPT
                        ![c] = [pc |-> "awaiting", kind |-> kind, owner |-> TRUE,
                                promise |-> Len(lazyLoads) + 1]]
    /\ UNCHANGED <<lazyValue, lazyInvalidated>>

\* A get() that starts a load of its own whenever no value is held.
LazyGetAlwaysLoads ==
    \E c \in LazyCalls :
        /\ lazyCalls[c] = NotCalled
        /\ IF lazyValue # Undefined
           THEN /\ lazyCalls' = [lazyCalls EXCEPT
                                    ![c] = [pc |-> "settled", kind |-> "get",
                                            outcome |-> lazyValue,
                                            loaded |-> TRUE]]
                /\ UNCHANGED <<lazyValue, lazyLoading, lazyLoads, lazyInvalidated>>
           ELSE StartsLoad(c, "get")

\* get(), up to its await or its return.
LazyGet ==
    \E c \in LazyCalls :
        /\ lazyCalls[c] = NotCalled
        /\ IF lazyValue # Undefined
           THEN /\ lazyCalls' = [lazyCalls EXCEPT
                                    ![c] = [pc |-> "settled", kind |-> "get",
                                            outcome |-> lazyValue,
                                            loaded |-> TRUE]]
                /\ UNCHANGED <<lazyValue, lazyLoading, lazyLoads, lazyInvalidated>>
           ELSE IF lazyLoading = Null
                THEN StartsLoad(c, "get")
                ELSE /\ lazyCalls' =
                            [lazyCalls EXCEPT
                                ![c] = [pc |-> "awaiting", kind |-> "get",
                                        owner |-> FALSE,
                                        promise |-> lazyLoading.promise]]
                     /\ UNCHANGED <<lazyValue, lazyLoading, lazyLoads,
                                    lazyInvalidated>>

\* load(), up to its await or its return; loaded is what isLoaded() reads
\* when the promise of the call resolves.
LazyLoad ==
    \E c \in LazyCalls :
        /\ lazyCalls[c] = NotCalled
        /\ IF lazyValue = Undefined /\ lazyLoading = Null
           THEN StartsLoad(c, "load")
           ELSE /\ lazyCalls' = [lazyCalls EXCEPT
                                    ![c] = [pc |-> "settled", kind |-> "load",
                                            outcome |-> Undefined,
                                            loaded |-> isLoaded(lazyValue)]]
                /\ UNCHANGED <<lazyValue, lazyLoading, lazyLoads, lazyInvalidated>>

\* The promise of an invocation of loadFn settles.
LoadSettles ==
    \E p \in DOMAIN lazyLoads, settledWith \in LoadOutcomes :
        /\ lazyLoads[p] = LoadPending
        /\ lazyLoads' = [lazyLoads EXCEPT ![p] = settledWith]
        /\ UNCHANGED <<lazyValue, lazyLoading, lazyCalls, lazyInvalidated>>

\* A call is resumed after its await: the call that started the load
\* assigns this.value and, in its finally block, clears this.loading; a
\* get() that returned this.loading settles as that promise did.
LazyResume ==
    \E c \in LazyCalls :
        /\ lazyCalls[c].pc = "awaiting"
        /\ lazyLoads[lazyCalls[c].promise] # LoadPending
        /\ LET resumed == lazyCalls[c]
               settled == lazyLoads[resumed.promise]
               value == IF resumed.owner /\ settled # LoadFailed
                        THEN settled ELSE lazyValue
           IN /\ lazyValue' = value
              /\ lazyLoading' = IF resumed.owner THEN Null ELSE lazyLoading
              /\ lazyCalls' =
                     [lazyCalls EXCEPT
                         ![c] = [pc |-> "settled", kind |-> resumed.kind,
                                 outcome |-> IF settled = LoadFailed
                                                \/ resumed.kind = "get"
                                             THEN settled ELSE Undefined,
                                 loaded |-> isLoaded(value),
                                 promise |-> resumed.promise]]
        /\ UNCHANGED <<lazyLoads, lazyInvalidated>>

\* invalidate()
LazyInvalidate ==
    /\ lazyValue' = Undefined
    /\ lazyInvalidated' = TRUE
    /\ UNCHANGED <<lazyLoading, lazyLoads, lazyCalls>>

NextLazy ==
    \/ LazyGet /\ UNCHANGED varsButLazy
    \/ LazyLoad /\ UNCHANGED varsButLazy
    \/ LoadSettles /\ UNCHANGED varsButLazy
    \/ LazyResume /\ UNCHANGED varsButLazy
    \/ LazyInvalidate /\ UNCHANGED varsButLazy

----------------------------------------------------------------------------
(* ParallelExecutor.  A task is started by runNext, its promise settles    *)
(* on its own, and the rest of its wrapper (the finally block) runs in a   *)
(* later step.                                                             *)

\* The tasks that are submitted.
NumTasks == 3

\* The highest concurrency an executor is constructed with.
MaxConcurrency == 2

Tasks == 1..NumTasks

ExecutorInit ==
    /\ peConcurrency = Null
    /\ peRunning = 0
    /\ peQueue = <<>>
    /\ peTasks = [t \in Tasks |-> "notSubmitted"]
    /\ peSubmitted = <<>>
    /\ peStarted = <<>>

\* A runNext() that takes the task that was queued last.
runNextNewestFirst(concurrency, running, queue) ==
    IF running < concurrency /\ Len(queue) > 0
    THEN [running |-> running + 1,
          queue |-> SubSeq(queue, 1, Len(queue) - 1),
          started |-> <<queue[Len(queue)]>>]
    ELSE [running |-> running, queue |-> queue, started |-> <<>>]

\* runNext(): the executor after the call, and the task it started.
runNext(concurrency, running, queue) ==
    IF running < concurrency /\ Len(queue) > 0
    THEN [running |-> running + 1, queue |-> Tail(queue),
          started |-> <<Head(queue)>>]
    ELSE [running |-> running, queue |-> queue, started |-> <<>>]

\* The executor after a runNext() that followed a change of its fields.
AfterRunNext(running, queue, tasks) ==
    LET next == runNext(peConcurrency.value, running, queue)
    IN /\ peRunning' = next.running
       /\ peQueue' = next.queue
       /\ peStarted' = peStarted \o next.started
       /\ peTasks' = [t \in Tasks |->
                         IF t \in Range(next.started) THEN "started"
                         ELSE tasks[t]]

\* new ParallelExecutor(concurrency)
NewParallelExecutor ==
    \E concurrency \in 0..MaxConcurrency :
        /\ peConcurrency = Null
        /\ peConcurrency' = [value |-> concurrency]
        /\ UNCHANGED <<peRunning, peQueue, peTasks, peSubmitted, peStarted>>

\* execute(task): the wrapper is queued, then runNext().
Execute ==
    \E t \in Tasks :
        /\ peConcurrency # Null
        /\ peTasks[t] = "notSubmitted"
        /\ peSubmitted' = Append(peSubmitted, t)
        /\ AfterRunNext(peRunning, Append(peQueue, t),
                        [peTasks EXCEPT ![t] = "queued"])
        /\ UNCHANGED peConcurrency

\* The promise of a started task settles, fulfilled or rejected.
TaskSettles ==
    \E t \in Tasks :
        /\ peTasks[t] = "started"
        /\ peTasks' = [peTasks EXCEPT ![t] = "settled"]
        /\ UNCHANGED <<peConcurrency, peRunning, peQueue, peSubmitted, peStarted>>

\* The wrapper of a settled task goes on: resolve or reject, then the
\* finally block with this.running-- and runNext().
TaskFinishes ==
    \E t \in Tasks :
        /\ peTasks[t] = "settled"
        /\ AfterRunNext(peRunning - 1, peQueue,
                        [peTasks EXCEPT ![t] = "finished"])
        /\ UNCHANGED <<peConcurrency, peSubmitted>>

NextExecutor ==
    \/ NewParallelExecutor /\ UNCHANGED varsButExecutor
    \/ Execute /\ UNCHANGED varsButExecutor
    \/ TaskSettles /\ UNCHANGED varsButExecutor
    \/ TaskFinishes /\ UNCHANGED varsButExecutor

----------------------------------------------------------------------------
(* BatchExecutor.  The k-th call of queue has the promise k; batchFn's     *)
(* promise settles on its own, and the rest of flush runs with it.         *)

\* The calls of queue that are made.
NumQueued == 3

\* The highest maxBatchSize an executor is constructed with.
MaxBatchSize == 2

BatchItems == {"x", "y"}

\* What batchFn's promise may settle with for a batch: one result for each
\* item, or a failure.
BatchFailed == [error |-> "batch failed"]

BatchOutcomes(batch) ==
    { [value |-> results] : results \in [1..Len(batch) -> {0, 1}] }
    \cup { BatchFailed }

BatchInit ==
    /\ beMaxBatchSize = Null
    /\ beBatch = <<>>
    /\ bePromises = <<>>
    /\ beTimeout = FALSE
    /\ beQueued = <<>>
    /\ beFlushed = <<>>
    /\ beSettlements = [k \in 1..NumQueued |-> <<>>]

\* What the loops at the end of flush do with the promises of the batch,
\* the last promise getting the first result.
ResolveAllReversed(promises, settled) ==
    [i \in 1..Len(promises) |->
        [promise |-> promises[i],
         with |-> IF settled = BatchFailed THEN BatchFailed
                  ELSE [value |-> settled.value[Len(promises) + 1 - i]]]]

\* The loops at the end of flush: currentPromises[i].resolve(results[i]),
\* or promise.reject(error) for each.
ResolveAll(promises, settled) ==
    [i \in 1..Len(promises) |->
        [promise |-> promises[i],
         with |-> IF settled = BatchFailed THEN BatchFailed
                  ELSE [value |-> settled.value[i]]]]

\* flush(), up to its await: the timer is cleared, and a batch that is not
\* empty is handed to batchFn.
Flush(batch, promises) ==
    /\ beTimeout' = FALSE
    /\ beBatch' = <<>>
    /\ bePromises' = <<>>
    /\ beFlushed' = IF Len(batch) = 0 THEN beFlushed
                    ELSE Append(beFlushed, [batch |-> batch,
                                            promises |-> promises,
                                            settled |-> LoadPending])

\* new BatchExecutor(batchFn, delay, maxBatchSize)
NewBatchExecutor ==
    \E maxBatchSize \in 1..MaxBatchSize :
        /\ beMaxBatchSize = Null
        /\ beMaxBatchSize' = [value |-> maxBatchSize]
        /\ UNCHANGED <<beBatch, bePromises, beTimeout, beQueued, beFlushed,
                       beSettlements>>

\* queue(item)
Queue ==
    \E item \in BatchItems :
        /\ beMaxBatchSize # Null
        /\ Len(beQueued) < NumQueued
        /\ beQueued' = Append(beQueued, item)
        /\ IF Len(beBatch) + 1 >= beMaxBatchSize.value
           THEN Flush(Append(beBatch, item),
                      Append(bePromises, Len(beQueued) + 1))
           ELSE /\ beBatch' = Append(beBatch, item)
                /\ bePromises' = Append(bePromises, Len(beQueued) + 1)
                /\ beTimeout' = TRUE
                /\ UNCHANGED beFlushed
        /\ UNCHANGED <<beMaxBatchSize, beSettlements>>

\* The timer set by queue fires: flush().
TimerFires ==
    /\ beTimeout
    /\ Flush(beBatch, bePromises)
    /\ UNCHANGED <<beMaxBatchSize, beQueued, beSettlements>>

\* batchFn's promise for a batch settles, and flush settles the promises
\* of the batch.
BatchSettles ==
    \E f \in DOMAIN beFlushed :
        /\ beFlushed[f].settled = LoadPending
        /\ \E settled \in BatchOutcomes(beFlushed[f].batch) :
            LET resolved == ResolveAll(beFlushed[f].promises, settled)
            IN /\ beFlushed' = [beFlushed EXCEPT ![f].settled = settled]
               /\ beSettlements' =
                      [k \in 1..NumQueued |->
                          LET mine == SelectSeq(resolved,
                                                LAMBDA r : r.promise = k)
                          IN beSettlements[k]
                             \o [i \in 1..Len(mine) |-> mine[i].with]]
        /\ UNCHANGED <<beMaxBatchSize, beBatch, bePromises, beTimeout, beQueued>>

NextBatch ==
    \/ NewBatchExecutor /\ UNCHANGED varsButBatch
    \/ Queue /\ UNCHANGED varsButBatch
    \/ TimerFires /\ UNCHANGED varsButBatch
    \/ BatchSettles /\ UNCHANGED varsButBatch

----------------------------------------------------------------------------
(* CodeIndex.  A content is a text of the calculator: a sequence of words. *)
(* The fields lastModified and size of the metadata are left out.          *)

CodeIds == {"a", "b"}

CodeContents ==
    { << <<"cat">> >>, << <<"fox">> >>, << <<"cat">>, <<"dog">>, <<"cat">> >> }

\* The embedding and the AST addDocument may be given.
CodeEmbeddings == { Undefined, [value |-> <<1, 0>>] }

CodeASTs ==
    { Undefined,
      [type |-> "Program",
       range |-> [start |-> [line |-> 0, column |-> 0],
                  end |-> [line |-> 1, column |-> 0]],
       children |->
           << [type |-> "FunctionDeclaration", value |-> "f",
               range |-> [start |-> [line |-> 0, column |-> 0],
                          end |-> [line |-> 0, column |-> 9]],
               children |->
                   << [type |-> "VariableDeclaration",
                       range |-> [start |-> [line |-> 0, column |-> 4],
                                  end |-> [line |-> 0, column |-> 8]],
                       children |-> <<>>] >>] >>] }

NoCalc == [documents |-> <<>>, chunkCount |-> 0, chunkOccurrences |-> <<>>]

CodeIndexInit ==
    /\ ciDocumentIndex = NoValues
    /\ ciTermIndex = NoValues
    /\ ciEmbeddings = NoValues
    /\ ciAstIndex = NoValues
    /\ ciSymbolIndex = NoValues
    /\ ciTfIdf = NoCalc
    /\ ciLast = [op |-> "none"]

\* content.toLowerCase().split(/\W+/).filter(term => term.length > 2)
IndexTerms(content) == [i \in 1..Len(content) |-> JoinParts(content[i])]

\* updateTermIndex(id, content): the term index after the call.
updateTermIndex(termIndex, id, content) ==
    LET termCounts == countMapFrom(IndexTerms(content))
    IN [term \in DOMAIN termIndex \cup DOMAIN termCounts |->
           IF term \notin DOMAIN termCounts THEN termIndex[term]
           ELSE LET termFreq == IF term \in DOMAIN termIndex
                                THEN termIndex[term]
                                ELSE [term |-> term, documentFrequency |-> 0,
                                      documents |-> NoValues]
                IN [term |-> term,
                    documentFrequency |->
                        IF id \in DOMAIN termFreq.documents
                        THEN termFreq.documentFrequency
                        ELSE termFreq.documentFrequency + 1,
                    documents |-> storageSet(termFreq.documents, id,
                                             termCounts[term])]]

\* The loop of removeDocument over the term index.
removeFromTermIndex(termIndex, id) ==
    LET kept == {term \in DOMAIN termIndex :
                    ~(/\ id \in DOMAIN termIndex[term].documents
                      /\ termIndex[term].documentFrequency - 1 = 0)}
    IN [term \in kept |->
           IF id \in DOMAIN termIndex[term].documents
           THEN [term |-> term,
                 documentFrequency |-> termIndex[term].documentFrequency - 1,
                 documents |-> storageDelete(termIndex[term].documents, id)]
           ELSE termIndex[term]]

\* isSymbolNode(node)
isSymbolNode(node) ==
    node.type \in {"FunctionDeclaration", "ClassDeclaration", "MethodDefinition",
                   "VariableDeclaration", "InterfaceDeclaration",
                   "TypeAliasDeclaration", "EnumDeclaration"}

\* extractSymbols(node, containerName) of extractSymbolsFromAST: the
\* symbols pushed, those of the children before the node's own.
RECURSIVE extractSymbols(_, _, _)
extractSymbols(id, node, containerName) ==
    LET name == IF "value" \in DOMAIN node THEN node.value ELSE node.type
        RECURSIVE OfChildren(_, _)
        OfChildren(k, container) ==
            IF k > Len(node.children) THEN <<>>
            ELSE extractSymbols(id, node.children[k], container)
                 \o OfChildren(k + 1, container)
    IN IF isSymbolNode(node)
       THEN OfChildren(1, [value |-> name])
            \o << [name |-> name, kind |-> node.type,
                   location |->
                       [path |-> id,
                        range |->
                            [start |-> [line |-> node.range.start.line,
                                        character |-> node.range.start.column],
                             end |-> [line |-> node.range.end.line,
                                      character |-> node.range.end.column]]],
                   containerName |-> containerName,
                   children |-> <<>>] >>
       ELSE OfChildren(1, containerName)

\* addDocument(id, content, metadata, embedding, ast)
AddDocument ==
    \E id \in CodeIds, content \in CodeContents,
       embedding \in CodeEmbeddings, ast \in CodeASTs :
        /\ ciDocumentIndex' =
               storageSet(ciDocumentIndex, id, [id |-> id, type |-> "file"])
        /\ ciTfIdf' = updateDocuments(ciTfIdf,
                          << [key |-> id, textChunks |-> <<content>>] >>)
        /\ ciTermIndex' = updateTermIndex(ciTermIndex, id, content)
        /\ ciEmbeddings' = IF embedding # Undefined
                           THEN storageSet(ciEmbeddings, id, embedding.value)
                           ELSE ciEmbeddings
        /\ ciAstIndex' = IF ast # Undefined
                         THEN storageSet(ciAstIndex, id, ast) ELSE ciAstIndex
        /\ ciSymbolIndex' =
               IF ast # Undefined
               THEN storageSet(ciSymbolIndex, id,
                               extractSymbols(id, ast, Undefined))
               ELSE ciSymbolIndex
        /\ ciLast' = [op |-> "addDocument", id |-> id, content |-> content,
                      embedding |-> embedding, ast |-> ast]

\* removeDocument(id)
RemoveDocument ==
    \E id \in CodeIds :
        /\ ciDocumentIndex' = storageDelete(ciDocumentIndex, id)
        /\ ciTfIdf' = deleteDocument(ciTfIdf, id)
        /\ ciTermIndex' = removeFromTermIndex(ciTermIndex, id)
        /\ ciEmbeddings' = storageDelete(ciEmbeddings, id)
        /\ ciAstIndex' = storageDelete(ciAstIndex, id)
        /\ ciSymbolIndex' = storageDelete(ciSymbolIndex, id)
        /\ ciLast' = [op |-> "removeDocument", id |-> id]

NextCodeIndex ==
    \/ AddDocument /\ UNCHANGED varsButCodeIndex
    \/ RemoveDocument /\ UNCHANGED varsButCodeIndex

----------------------------------------------------------------------------
(* normalizeTfIdfScores.  Here a score is a number, kept as a fraction.    *)

\* Most scores a list carries.
MaxScores == 3

\* Scores as calculateScores pushes them, one object each, and scores of 0.
TfIdfScores == { [key |-> key, score |-> Score(n, 1)] : key \in Keys, n \in 0..3 }

\* A normalization that leaves the list in the order given.
normalizeTfIdfScoresInPlace(scores) ==
    LET max == IF Len(scores) > 0 THEN scores[1].score ELSE Score(0, 1)
    IN IF max.num > 0
       THEN [i \in DOMAIN scores |->
                [scores[i] EXCEPT !.score = ScoreOver(@, max)]]
       ELSE scores

\* normalizeTfIdfScores(scores)
normalizeTfIdfScores(scores) ==
    LET result == SortByScore(scores)
        max == IF Len(result) > 0 THEN result[1].score ELSE Score(0, 1)
    IN IF max.num > 0
       THEN [i \in DOMAIN result |->
                [result[i] EXCEPT !.score = ScoreOver(@, max)]]
       ELSE result

\* normalizeTfIdfScores(scores)
NormalizeTfIdfScores ==
    \E scores \in SeqsUpTo(TfIdfScores, MaxScores) :
        /\ lastCall = Null
        /\ lastCall' = [op |-> "normalizeTfIdfScores", scores |-> scores,
                        result |-> normalizeTfIdfScores(scores)]

NextNormalize ==
    NormalizeTfIdfScores
        /\ UNCHANGED <<varsTfIdf, varsStorage, varsIndexing, varsContext,
                       varsCache, varsPrompt, varsGatherer, varsLate>>

----------------------------------------------------------------------------
Init ==
    /\ TfIdfInit /\ StorageInit /\ IndexingInit /\ ContextInit /\ CacheInit
    /\ PromptInit /\ DirectInit /\ GathererInit
    /\ SourceInit /\ LazyInit /\ ExecutorInit /\ BatchInit /\ CodeIndexInit

SpecTfIdf == Init /\ [][NextTfIdf]_vars

SpecStorage == Init /\ [][NextStorage]_vars

SpecIndexing == Init /\ [][NextIndexing]_vars

SpecContext == Init /\ [][NextContext]_vars

SpecContextKey == Init /\ [][NextContextKey]_vars

SpecGatherer == Init /\ [][NextGatherer]_vars

SpecSource == Init /\ [][NextSource]_vars

SpecLazy == Init /\ [][NextLazy]_vars

SpecExecutor == Init /\ [][NextExecutor]_vars

SpecCodeIndex == Init /\ [][NextCodeIndex]_vars

SpecBatch == Init /\ [][NextBatch]_vars

\* The event loop fires a timer that is set, and batchFn's promise settles.
SpecBatchLive ==
    /\ Init /\ [][NextBatch]_vars
    /\ WF_vars(TimerFires /\ UNCHANGED varsButBatch)
    /\ WF_vars(BatchSettles /\ UNCHANGED varsButBatch)

SpecChunking == Init /\ [][NextChunking]_vars

SpecASTChunking == Init /\ [][NextASTChunking]_vars

SpecNormalize == Init /\ [][NextNormalize]_vars

SpecRanker == Init /\ [][NextRanker]_vars

SpecPrompt == Init /\ [][NextPrompt]_vars

SpecCache == Init /\ [][NextCache]_vars

----------------------------------------------------------------------------
(* Repeated indexFile calls, with a record of how each one ended.          *)

\* What is kept of an indexFile call that ended: what it was called with,
\* the strategy that ran and whether its parser threw, whether it returned
\* its chunks with the token not cancelled, the ids of what it returned and
\* the ids the store held when it ended.
Ended(o, docs) ==
    LET returned == ~IsError(o.result) /\ ~o.cancelled
    IN [filePath |-> o.call.metadata.filePath,
        content |-> o.call.content,
        options |-> o.call.options,
        strategy |-> o.call.strategy,
        threw |-> o.call.threw,
        returned |-> returned,
        ids |-> IF returned THEN ChunkIds(o.result.value) ELSE <<>>,
        stored |-> MapKeys(docs)]

\* history grows by one entry at the step that ends an indexFile call.
Recorded ==
    history' = IF call # Idle /\ call' = Idle /\ outcome'.op = "indexFile"
               THEN Append(history, Ended(outcome', storage'))
               ELSE history

ReindexFileCall == IndexFile(MaxReindex)

NextReindex ==
    \/ RegisterEmbeddingProvider
         /\ UNCHANGED <<varsRest, varsTfIdf, varsStorage, semDocuments, varsCall>>
    \/ RegisterASTParser
         /\ UNCHANGED <<varsRest, varsTfIdf, varsStorage, semDocuments, varsCall>>
    \/ ReindexFileCall
         /\ UNCHANGED <<varsRest, varsTfIdf, varsStorage, varsRegistry, indexed, history>>
    \/ ParseDone
         /\ UNCHANGED <<varsRest, varsTfIdf, varsStorage, varsRegistry, indexed, history>>
    \/ ChunksDone
         /\ UNCHANGED <<varsRest, varsTfIdf, varsStorage, varsRegistry>>
         /\ Recorded
    \/ EmbeddingDone
         /\ UNCHANGED <<varsRest, varsTfIdf, stResult, stLast, stOrder, varsRegistry, indexed,
                        history>>
    \/ StoreDone
         /\ UNCHANGED <<varsRest, varsTfIdf, varsStorage, varsRegistry>>
         /\ Recorded
    \/ Cancel
         /\ UNCHANGED <<varsRest, varsTfIdf, varsStorage, varsRegistry, clock, written, indexed,
                        history>>

SpecReindex == Init /\ [][NextReindex]_vars

----------------------------------------------------------------------------
(* Claims about TfIdfCalculator, checked under SpecTfIdf.                  *)

\* The chunks of the documents the calculator holds.
StoredChunks ==
    {<<i, j>> \in (1..Len(tfDocuments)) \X (1..MaxCount) :
        j <= Len(tfDocuments[i].value.chunks)}

ChunksContaining(t) ==
    Cardinality({p \in StoredChunks :
        t \in DOMAIN tfDocuments[p[1]].value.chunks[p[2]].tf})

AllTerms == {"cat", "dog", "fox", "catdog"}

\* C2: after any sequence of updateDocuments and deleteDocument calls,
\* chunkCount is the number of chunks of the documents stored, and once
\* deleteDocument was called for every key chunkCount is 0 and the
\* term-occurrence map is empty.
C2_ChunkCountIsStoredChunks ==
    /\ chunkCount = Cardinality(StoredChunks)
    /\ Keys \subseteq tfDeleted =>
          chunkCount = 0 /\ DOMAIN chunkOccurrences = {}

\* C3: for every term, chunkOccurrences counts the stored chunks that
\* contain it, and the term is absent from the map exactly when no stored
\* chunk contains it.
C3_OccurrencesAreStoredChunks ==
    /\ DOMAIN chunkOccurrences \subseteq AllTerms
    /\ \A t \in AllTerms :
          /\ t \in DOMAIN chunkOccurrences => chunkOccurrences[t] = ChunksContaining(t)
          /\ t \notin DOMAIN chunkOccurrences <=> ChunksContaining(t) = 0

\* C4: updateDocuments replaces: for every list D, updating with D twice
\* in a row gives the state updating once gives, which is the state of
\* deleting every key of D and then inserting D.
C4_UpdateReplaces ==
    \A docs \in DocumentLists :
        LET once == updateDocuments(Calc, docs)
            DeleteKey(cc, doc) == deleteDocument(cc, doc.key)
        IN /\ updateDocuments(once, docs) = once
           /\ once = FoldSeq(InsertDocument, FoldSeq(DeleteKey, Calc, docs), docs)

----------------------------------------------------------------------------
(* Claims about InMemoryStorageAdapter, checked under SpecStorage.         *)

\* C5: retrieveDocument(id) returns what the most recent storeDocument(id)
\* stored when no deleteDocument(id) or clear came after it and null
\* otherwise, and deleteDocument returns true exactly when the id was
\* present.
C5_RetrieveReturnsLatest ==
    /\ [](/\ \A id \in StoreIds : retrieveDocument(storage, id) = stLast[id]
          /\ stResult.op = "retrieveDocument" =>
                stResult.value = stLast[stResult.id])
    /\ [][stResult'.op = "deleteDocument" =>
            (stResult'.value <=> stLast[stResult'.id] # Null)]_vars

C5_Witness ==
    /\ stResult.op = "retrieveDocument"
    /\ stResult.value # Null
    /\ stResult.value.content = "beta"
    /\ Len(storage) = NumIds

\* Where id is in the order of first storing.
OrderOf(id) == CHOOSE i \in 1..Len(stOrder) : stOrder[i] = id

\* C6: findSimilar(q, limit, threshold) returns the stored records whose
\* cosine similarity with q is at least threshold, by descending score,
\* records of equal score in the order they were first stored, cut to the
\* first limit entries, and leaves the store as it was.
C6_ResultIsTopK ==
    (stResult.op = "findSimilar" /\ ~IsError(stResult.result)) =>
        LET res == stResult.result.value
            q == stResult.embedding
            scoreOf(id) == cosineSimilarity(q, stLast[id].embedding)
            Qualifying == {id \in Range(stOrder) :
                              ScoreGeq(scoreOf(id), stResult.threshold)}
            \* a goes before b in the answer
            Before(a, b) ==
                \/ ~ScoreGeq(scoreOf(b), scoreOf(a))
                \/ scoreOf(a) = scoreOf(b) /\ OrderOf(a) < OrderOf(b)
        IN /\ Len(res) = IF stResult.limit < Cardinality(Qualifying)
                         THEN stResult.limit ELSE Cardinality(Qualifying)
           /\ \A j \in 1..Len(res) :
                 /\ res[j].id \in Qualifying
                 /\ res[j] = [id |-> res[j].id,
                              content |-> stLast[res[j].id].content,
                              metadata |-> stLast[res[j].id].metadata,
                              score |-> scoreOf(res[j].id)]
           /\ \A j, k \in 1..Len(res) : j < k => Before(res[j].id, res[k].id)
           /\ \A id \in Qualifying :
                 (\A j \in 1..Len(res) : res[j].id # id) =>
                     \A j \in 1..Len(res) : Before(res[j].id, id)

C6_FindSimilar ==
    /\ []C6_ResultIsTopK
    /\ [][stResult'.op = "findSimilar" => storage' = storage]_vars

C6_Witness ==
    /\ stResult.op = "findSimilar"
    /\ ~IsError(stResult.result)
    /\ Len(stResult.result.value) = 2
    /\ stResult.result.value[1].score = stResult.result.value[2].score
    /\ stResult.result.value[1].id > stResult.result.value[2].id

\* C7: findSimilar fails with the dimension-mismatch error exactly when
\* some stored embedding's length differs from the query's; then it returns
\* no list and the store is unchanged.  storeDocument accepts an embedding
\* of any length.
C7_MismatchFails ==
    /\ [](stResult.op = "findSimilar" =>
            /\ IsError(stResult.result) <=>
                  \E id \in Range(stOrder) :
                      Len(stLast[id].embedding) # Len(stResult.embedding)
            /\ IsError(stResult.result) =>
                  /\ stResult.result = DimensionMismatch
                  /\ "value" \notin DOMAIN stResult.result)
    /\ [](stResult.op = "storeDocument" =>
            retrieveDocument(storage, stResult.id) = stLast[stResult.id])
    /\ [][(stResult'.op = "findSimilar" /\ IsError(stResult'.result)) =>
            storage' = storage]_vars

C7_Witness ==
    /\ stResult.op = "findSimilar"
    /\ IsError(stResult.result)
    /\ Len(storage) = 2
    /\ Len(storage[1].value.embedding) = Len(stResult.embedding)
    /\ Len(storage[2].value.embedding) # Len(stResult.embedding)

----------------------------------------------------------------------------
(* Claims about the orchestrator and cancellation, checked under           *)
(* SpecIndexing.                                                           *)

IdsOf(results) == [i \in 1..Len(results) |-> results[i].id]

\* C1: once an indexFile call has returned its chunks with the token not
\* cancelled, a search that returns without cancellation or error returns
\* the stored chunks whose embedding has cosine similarity >= threshold
\* with the query's embedding, the topK highest of them; so its result is
\* not empty when such a chunk was indexed.
C1_SearchReturnsIndexedChunks ==
    ( /\ outcome.op = "search"
      /\ ~outcome.atStart
      /\ ~outcome.cancelled
      /\ ~IsError(outcome.result)
      /\ indexed # {} )
    => LET c == outcome.call
           expected ==
               findSimilar(storage, EmbedText(c.providerId, c.content),
                   IF "topK" \in DOMAIN c.options THEN c.options.topK
                   ELSE DefaultTopK,
                   IF "threshold" \in DOMAIN c.options THEN c.options.threshold
                   ELSE Score(0, 1))
       IN ~IsError(expected)
          => IdsOf(outcome.result.value) = IdsOf(expected.value)

\* The neutral value of an operation: [] for the lists, null for
\* indexContent, a prompt without snippets for buildPrompt.
IsNeutral(o) ==
    /\ ~IsError(o.result)
    /\ CASE o.op = "indexContent" -> o.result.value = Null
         [] o.op = "buildPrompt" ->
                o.result.value.metadata.includedSnippets = 0
         [] OTHER -> o.result.value = <<>>

\* C8: an operation called with a token that is already cancelled returns
\* the neutral value of its type and does not throw, whether or not the
\* provider it names is registered, and the step leaves the vector store,
\* the search engine's documents, the sparse index and the provider
\* registry as they were.
C8_CancelledAtStartIsNeutral ==
    /\ [](outcome.atStart => IsNeutral(outcome))
    /\ [][outcome'.atStart =>
            UNCHANGED <<storage, semDocuments, tfDocuments, chunkCount,
                        chunkOccurrences, providers>>]_vars

\* A cancelled computeEmbeddings for an unregistered id, with records in
\* the store and documents in the sparse index.
C8_Witness ==
    /\ outcome.atStart
    /\ outcome.op = "computeEmbeddings"
    /\ outcome.providerId \notin providers
    /\ Len(storage) > 0
    /\ Len(tfDocuments) > 0

IsPrefix(p, s) == Len(p) <= Len(s) /\ SubSeq(s, 1, Len(p)) = p

\* The records a call wrote are in storage with the chunks' content.
WrittenRemain(chunks) ==
    \A k \in 1..Len(written) :
        /\ MapHas(storage, written[k])
        /\ MapGet(storage, written[k]).content = chunks[k].content

\* C9: the ids an indexFile call hands to storeDocument are, at every
\* moment, a prefix of its chunk list in source order, grown by one chunk
\* at a time; when the token is cancelled while the call is in progress the
\* call returns a value, what it wrote is in storage, and the step that
\* sees the cancellation ends the call and stores nothing.
C9_StoresPrefixInOrder ==
    /\ []( /\ call.op = "indexFile"
              => IsPrefix(written, ChunkIds(call.chunks))
           /\ (outcome.op = "indexFile" /\ ~outcome.atStart)
              => /\ IsPrefix(written, ChunkIds(outcome.call.chunks))
                 /\ WrittenRemain(outcome.call.chunks)
                 /\ outcome.cancelled => ~IsError(outcome.result)
                 /\ ~outcome.cancelled /\ ~IsError(outcome.result)
                      => written = ChunkIds(outcome.call.chunks) )
    /\ [][ /\ (call.op = "indexFile" /\ written' # written)
              => written' = Append(written, call.chunks[Len(written) + 1].id)
           /\ (call.op = "indexFile" /\ outcome'.op = "indexFile"
                 /\ outcome'.observed)
              => storage' = storage /\ call' = Idle ]_vars

\* A call over two chunks that saw the cancellation after it stored one.
C9_Witness ==
    /\ outcome.op = "indexFile"
    /\ ~outcome.atStart
    /\ outcome.observed
    /\ Len(outcome.call.chunks) = 2
    /\ Len(written) = 1

\* The provider an indexing call names: options.providerId, else the
\* default.
ProviderNamed(o) ==
    IF o.atStart THEN o.providerId
    ELSE ProviderOf(o.call.options, defaultProviderId)

\* C10 as stated: every computeEmbeddings, indexFile and indexContent call
\* that names an unregistered provider fails with the no-such-provider
\* error, no provider is invoked and no record is stored.
C10_UnregisteredAlwaysFails ==
    /\ (outcome.op = "computeEmbeddings" /\ outcome.providerId \notin providers)
       => /\ outcome.result = NoSuchProvider(outcome.providerId)
          /\ ~outcome.invoked
    /\ (outcome.op \in {"indexFile", "indexContent"}
          /\ ProviderNamed(outcome) \notin providers)
       => /\ outcome.result = NoSuchProvider(ProviderNamed(outcome))
          /\ ~outcome.atStart => written = <<>>

\* C10, amended: a call that names an unregistered provider stores no
\* record and invokes no provider; it fails with the no-such-provider error
\* when its token is not cancelled and, for indexContent, the chunker
\* yields a chunk.
C10_UnregisteredFailsUnlessCancelled ==
    /\ (outcome.op = "computeEmbeddings" /\ outcome.providerId \notin providers)
       => /\ ~outcome.invoked
          /\ ~outcome.atStart
               => outcome.result = NoSuchProvider(outcome.providerId)
    /\ (outcome.op \in {"indexFile", "indexContent"} /\ ~outcome.atStart
          /\ ProviderNamed(outcome) \notin providers)
       => /\ written = <<>>
          /\ (~outcome.cancelled
                /\ (outcome.op = "indexContent"
                      => Len(outcome.call.chunks) > 0))
               => outcome.result = NoSuchProvider(ProviderNamed(outcome))

\* An indexFile call that names an unregistered provider while the default
\* one is registered, and fails.
C10_Witness ==
    /\ outcome.op = "indexFile"
    /\ ~outcome.atStart
    /\ ~outcome.cancelled
    /\ ProviderNamed(outcome) = MissingProviderId
    /\ "default" \in providers
    /\ IsError(outcome.result)

\* C11: the record an indexFile or indexContent call has just handed to
\* storeDocument carries in its stored metadata the id of the provider that
\* produced its embedding (options.providerId, else the default provider id
\* of the call).
C11_RecordsCarryProviderId ==
    (call.op \in {"indexFile", "indexContent"} /\ call.pc = "storing")
        => LET record == MapGet(storage, written[Len(written)])
           IN /\ "providerId" \in DOMAIN record.metadata
              /\ record.metadata.providerId = call.providerId

----------------------------------------------------------------------------
(* Claims about repeated indexFile calls, checked under SpecReindex.       *)

\* Two indexFile calls, one right after the other, with the same path,
\* content and options, that both returned their chunks.
SameCallTwice(k) ==
    /\ history[k].returned /\ history[k + 1].returned
    /\ history[k].filePath = history[k + 1].filePath
    /\ history[k].content = history[k + 1].content
    /\ history[k].options = history[k + 1].options

SameIdsAndStore(k) ==
    /\ history[k + 1].ids = history[k].ids
    /\ history[k + 1].stored = history[k].stored

\* C12 as stated: two indexFile calls in a row with the same path, content
\* and options return the same chunk ids in the same order, and the store
\* holds the same set of ids after the second as after the first.
C12_SameInputsSameIds ==
    \A k \in 1..(Len(history) - 1) : SameCallTwice(k) => SameIdsAndStore(k)

\* C12, amended: the same holds when the same chunking strategy runs in
\* both calls (no parser was registered in between) and its parser answers
\* the same way both times.
C12_SameInputsSameChunkerSameIds ==
    \A k \in 1..(Len(history) - 1) :
        (/\ SameCallTwice(k)
         /\ history[k].strategy = history[k + 1].strategy
         /\ history[k].threw = history[k + 1].threw)
            => SameIdsAndStore(k)

\* The same file indexed twice by the AST strategy, two records written and
\* kept.
C12_Witness ==
    /\ Len(history) = 2
    /\ SameCallTwice(1)
    /\ history[1].strategy = AST /\ history[2].strategy = AST
    /\ ~history[1].threw /\ ~history[2].threw
    /\ Len(history[2].ids) > 0
    /\ history[2].stored = Range(history[2].ids)

----------------------------------------------------------------------------
(* Claims about the context tree, checked under SpecContext.               *)

\* The path from a context to the root, the context first.
RECURSIVE PathToRoot(_)
PathToRoot(id) ==
    IF id = 0 THEN <<>> ELSE <<id>> \o PathToRoot(contextParent[id])

\* The value of key in the nearest context of the path that holds it.
NearestValue(id, key) ==
    LET path == PathToRoot(id)
        holders == {i \in 1..Len(path) : key \in DOMAIN contextValue[path[i]]}
    IN IF holders = {} THEN Undefined
       ELSE LET nearest == CHOOSE i \in holders : \A j \in holders : i <= j
            IN [value |-> contextValue[path[nearest]][key]]

\* C13: getValue(k) on a context returns the value set in the nearest
\* context on its path to the root that holds k, undefined if none does, so
\* it depends on no context off that path and follows every change of a
\* parent; collectAllValues() is the map of the keys held on the path, each
\* with the value getValue returns.
C13_NearestOnPath ==
    /\ \A id \in ContextObjects, key \in ContextKeyNames :
           getValue(contextParent, contextValue, id, key) = NearestValue(id, key)
    /\ ctxResult.op = "getValue"
         => ctxResult.result = NearestValue(ctxResult.contextId, ctxResult.key)
    /\ ctxResult.op = "collectAllValues"
         => LET all == ctxResult.result.value
                path == PathToRoot(ctxResult.contextId)
            IN /\ DOMAIN all = UNION {DOMAIN contextValue[path[i]] :
                                         i \in 1..Len(path)}
               /\ \A key \in DOMAIN all :
                      [value |-> all[key]] = NearestValue(ctxResult.contextId, key)

\* A grandchild that holds nothing itself: it collects one key from its
\* parent, which overrides the root, and the other from the root.
C13_Witness ==
    /\ ctxResult.op = "collectAllValues"
    /\ ctxResult.contextId = 3
    /\ contextParent[3] = 2
    /\ DOMAIN contextValue[2] = {"rootKey"}
    /\ DOMAIN contextValue[1] = {"rootKey", "childKey"}
    /\ ctxResult.result.value = [rootKey |-> 2, childKey |-> 1]

----------------------------------------------------------------------------
(* Claims about the service and its context keys, checked under            *)
(* SpecContextKey.                                                         *)

\* The child contexts that were disposed: created, and no longer held.
DisposedChildren == (2..lastContextId) \ contexts

\* C14: once a child context is disposed, getContextValuesContainer fails
\* for its id from then on (no step puts a disposed id back), and
\* createChildContext returns an id above every id returned before, the
\* disposed ones included.
C14_DisposedStayUnknownIdsFresh ==
    /\ []((ctxResult.op = "getContextValuesContainer"
             /\ ctxResult.contextId \in DisposedChildren)
            => ctxResult.result = UnknownContext(ctxResult.contextId))
    /\ [][ /\ DisposedChildren \subseteq DisposedChildren'
           /\ lastContextId' >= lastContextId
           /\ (ctxResult'.op = "createChildContext" /\ ~IsError(ctxResult'.result))
                => /\ ctxResult'.result.value \notin 1..lastContextId
                   /\ ctxResult'.result.value = lastContextId'
                   /\ ctxResult'.result.value \in contexts' ]_vars

\* The first child was disposed, a second one was created after it under
\* another id, and a lookup of the first one's id has failed.
C14_Witness ==
    /\ ctxResult.op = "getContextValuesContainer"
    /\ ctxResult.contextId = 2
    /\ IsError(ctxResult.result)
    /\ lastContextId = 3
    /\ contexts = {1, 3}

\* C15: the root context is never disposed: the service always holds it,
\* disposeContext on its id is surfaced as an error, and setContext and
\* getContextKeyValue keep working on it (a value set is the value read).
C15_RootNeverDisposed ==
    /\ 1 \in contexts
    /\ (ctxResult.op = "disposeContext" /\ ctxResult.contextId = 1)
         => IsError(ctxResult.result)
    /\ ctxResult.op = "setContext"
         => getContextKeyValue(contexts, contextParent, contextValue,
                               ctxResult.key) = [value |-> ctxResult.value]

\* C16: for a context key created with createKey(k, d), get() returns d
\* right after creation, v right after set(v) and d again right after
\* reset(); when d is undefined, reset() leaves k absent from the root
\* context.
C16_KeyGetSetReset ==
    LET read(contextKey) ==
            getContextKeyValue(contexts, contextParent, contextValue,
                               contextKey.key)
    IN /\ ctxResult.op \in {"createKey", "reset"}
            => /\ read(ctxResult.contextKey) = ctxResult.contextKey.defaultValue
               /\ ctxResult.contextKey.defaultValue = Undefined
                    => ctxResult.contextKey.key \notin DOMAIN contextValue[1]
       /\ ctxResult.op = "set"
            => read(ctxResult.contextKey) = [value |-> ctxResult.value]
       /\ ctxResult.op = "get"
            => ctxResult.result = read(ctxResult.contextKey)

----------------------------------------------------------------------------
(* Claims about CacheStrategy, checked under SpecCache.                    *)

\* A step of the named call: time stands still while a call runs.
CacheStep(op) == cacheResult'.op = op /\ cacheNow' = cacheNow

\* The priority of a tracked entry.
PriorityOfKey(metadata, key) ==
    priorityFunction(cacheConfig, MapGet(metadata, key))

\* C17: when a set completes, at most policy.maxItems entries are tracked,
\* no tracked entry was set more than policy.maxAge ago, and every entry
\* the call removed was either expired or, among the entries that were not,
\* had a priority no higher than each entry that stays.
C17_SetEnforcesAgeAndCap ==
    [][CacheStep("set") =>
         LET key == cacheResult'.key
             entered == MapSet(cacheMetadata, key,
                               [timestamp |-> cacheNow, lastAccessTime |-> cacheNow])
             expired(k) == cacheNow - MapGet(entered, k).timestamp > cacheConfig.maxAge
             removed == MapKeys(entered) \ MapKeys(cacheMetadata')
         IN /\ Len(cacheMetadata') <= cacheConfig.maxItems
            /\ \A k \in MapKeys(cacheMetadata') :
                   cacheNow' - cacheSetAt'[k] <= cacheConfig.maxAge
            /\ \A r \in removed :
                   \/ expired(r)
                   \/ \A k \in MapKeys(cacheMetadata') :
                          PriorityOfKey(entered, r) <= PriorityOfKey(entered, k)
    ]_vars

\* The sum of the recorded sizes of the tracked entries.
TotalSize == SumTo([i \in 1..Len(cacheMetadata) |-> cacheMetadata[i].value.size],
                   Len(cacheMetadata))

\* C18: the sum of the recorded sizes of the cached entries never exceeds
\* policy.maxSize.
C18_TotalSizeWithinMaxSize ==
    cacheConfig # Null => TotalSize <= cacheConfig.maxSize

\* The short-term store without the keys of a set.
Without(store, keys) == [k \in DOMAIN store \ keys |-> store[k]]

\* What evictUnlikely does besides choosing how many entries to evict: the
\* evicted entries are tracked ones with the lowest priorities, they and
\* nothing else leave the short-term store, the persistent store and the
\* set of tracked keys stay as they are.
EvictsLowestFromShortTermOnly ==
    LET evicted == cacheResult'.evicted
        tracked == MapKeys(cacheMetadata)
    IN /\ evicted \subseteq tracked
       /\ \A e \in evicted, k \in tracked \ evicted :
              PriorityOfKey(cacheMetadata, e) <= PriorityOfKey(cacheMetadata, k)
       /\ shortTermCache' = Without(shortTermCache, evicted)
       /\ persistentCache' = persistentCache
       /\ MapKeys(cacheMetadata') = tracked

\* A get of a key that the short-term store lacks and the persistent store
\* has returns the persistent value.
GetFallsBackToPersistent ==
    (/\ CacheStep("get")
     /\ cacheResult'.key \notin DOMAIN shortTermCache
     /\ cacheConfig.persistent
     /\ cacheResult'.key \in DOMAIN persistentCache)
        => cacheResult'.result = [value |-> persistentCache[cacheResult'.key]]

\* C19 as stated: evictUnlikely removes from the short-term store the half
\* of the tracked entries with the lowest priority (for an odd number,
\* rounded either way) and nothing else, the persistent store is unchanged,
\* and a later get of an evicted key returns its value from it.
C19_EvictsLowerHalf ==
    [][ /\ CacheStep("evictUnlikely")
          => /\ EvictsLowestFromShortTermOnly
             /\ Cardinality(cacheResult'.evicted)
                  \in {Len(cacheMetadata) \div 2, (Len(cacheMetadata) + 1) \div 2}
        /\ GetFallsBackToPersistent ]_vars

\* C19, amended: evictUnlikely evicts the n - maxItems / 2 lowest-priority
\* entries of the n tracked ones, rounded up, and none when n is at most
\* maxItems / 2; the rest is as stated.
C19_EvictsDownToHalfOfMaxItems ==
    [][ /\ CacheStep("evictUnlikely")
          => /\ EvictsLowestFromShortTermOnly
             /\ LET twice == 2 * Len(cacheMetadata) - cacheConfig.maxItems
                IN Cardinality(cacheResult'.evicted)
                     = IF twice <= 0 THEN 0 ELSE (twice + 1) \div 2
        /\ GetFallsBackToPersistent ]_vars

\* An eviction of one of two tracked entries: it has left the short-term
\* store, the other one has not, and the persistent store holds both.
C19_Witness ==
    /\ cacheResult.op = "evictUnlikely"
    /\ Cardinality(cacheResult.evicted) = 1
    /\ Len(cacheMetadata) = 2
    /\ DOMAIN persistentCache = {"a", "b"}
    /\ DOMAIN shortTermCache = {"a", "b"} \ cacheResult.evicted

----------------------------------------------------------------------------
(* Claims about PromptBuilder, checked under SpecPrompt.                   *)

\* The tokens left for the context: the window less the reserved tokens
\* and the output, with the defaults for what the capabilities leave out.
AvailableTokens(capabilities) ==
    (IF capabilities # Null /\ capabilities.contextWindow # 0
     THEN capabilities.contextWindow ELSE DefaultContextWindow)
    - ReservedTokens
    - (IF capabilities # Null /\ "maxOutputTokens" \in DOMAIN capabilities
                              /\ capabilities.maxOutputTokens # 0
       THEN capabilities.maxOutputTokens ELSE DefaultMaxOutputTokens)

\* The estimated cost of a snippet in the prompt.
SnippetCost(snippet) ==
    estimateTokens(formatSnippet(snippet) \o promptTemplate.contextSeparator)

\* p lists the positions of the snippets by descending relevance, those of
\* equal relevance in the order of the input.
IsDescendingStable(p, snippets) ==
    /\ \A i \in DOMAIN snippets : \E j \in DOMAIN p : p[j] = i
    /\ \A i, j \in DOMAIN p :
           i < j =>
               LET a == snippets[p[i]].relevance
                   b == snippets[p[j]].relevance
               IN /\ ScoreGeq(a, b)
                  /\ ScoreGeq(b, a) => p[i] < p[j]

ByDescendingRelevance(snippets) ==
    LET n == Len(snippets)
        p == CHOOSE q \in [1..n -> 1..n] : IsDescendingStable(q, snippets)
    IN [i \in 1..n |-> snippets[p[i]]]

\* The cost of the first k snippets.
CostOfFirst(snippets, k) ==
    SumTo([i \in 1..k |-> SnippetCost(snippets[i])], k)

\* How many snippets are taken in order before one exceeds what is left.
LongestFittingPrefix(snippets, available) ==
    CHOOSE k \in 0..Len(snippets) :
        /\ \A j \in 1..k : CostOfFirst(snippets, j) <= available
        /\ k = Len(snippets) \/ CostOfFirst(snippets, k + 1) > available

\* part is a run of consecutive pieces of text.
Contains(text, part) ==
    \E from \in 0..(Len(text) - Len(part)) :
        \A i \in 1..Len(part) : text[from + i] = part[i]

\* C20: buildPrompt includes a prefix of the snippets sorted by descending
\* relevance, equal relevance keeping the input order: the snippets are
\* taken in that order up to the first one whose estimated cost exceeds
\* what is left of the budget (none when the first one alone exceeds it),
\* the included ones are written in that order where the template has its
\* context, and totalSnippets is the number of snippets given.
C20_IncludesSortedPrefix ==
    promptResult # Null =>
        LET context == promptResult.context
            result == promptResult.result
            sorted == ByDescendingRelevance(context.codeSnippets)
            k == LongestFittingPrefix(sorted,
                                      AvailableTokens(context.modelCapabilities))
        IN /\ result.metadata.includedSnippets = k
           /\ result.metadata.totalSnippets = Len(context.codeSnippets)
           /\ (k > 0 /\ \E i \in DOMAIN promptTemplate.userMessageTemplate :
                            promptTemplate.userMessageTemplate[i] = "{{context}}")
                => Contains(result.userMessage,
                            JoinSnippets(SubSeq(sorted, 1, k),
                                         promptTemplate.contextSeparator))

\* A call whose most relevant snippet alone exceeds the budget while a less
\* relevant one of the input would have fitted: nothing is included.
C20_Witness ==
    /\ promptResult # Null
    /\ promptResult.result.metadata.includedSnippets = 0
    /\ promptResult.result.metadata.totalSnippets = 2
    /\ \E i \in 1..2 :
           SnippetCost(promptResult.context.codeSnippets[i])
               <= AvailableTokens(promptResult.context.modelCapabilities)

\* A call that included two snippets of equal relevance and left out a
\* third one.
C20_WitnessTie ==
    /\ promptResult # Null
    /\ promptResult.result.metadata.includedSnippets = 2
    /\ promptResult.result.metadata.totalSnippets = 3
    /\ \A i \in 1..3 :
           promptResult.context.codeSnippets[i].relevance = Score(1, 1)
    /\ promptResult.context.codeSnippets[1] # promptResult.context.codeSnippets[2]

\* contextWindow - 500 - maxOutputTokens for the capabilities given, an
\* omitted maxOutputTokens counting as its default.
StatedBudget(capabilities) ==
    capabilities.contextWindow - ReservedTokens
    - (IF "maxOutputTokens" \in DOMAIN capabilities
       THEN capabilities.maxOutputTokens ELSE DefaultMaxOutputTokens)

\* C21: for every capability setting, maxOutputTokens 0 or omitted
\* included, the estimated cost of the included snippets is at most
\* contextWindow - 500 - maxOutputTokens, and a most relevant snippet whose
\* cost is exactly that budget is included.
C21_WithinBudgetAndExactFitIncluded ==
    (promptResult # Null /\ promptResult.context.modelCapabilities # Null) =>
        LET context == promptResult.context
            sorted == ByDescendingRelevance(context.codeSnippets)
            budget == StatedBudget(context.modelCapabilities)
            included == promptResult.result.metadata.includedSnippets
        IN /\ CostOfFirst(sorted, included) <= budget
           /\ (Len(sorted) > 0 /\ SnippetCost(sorted[1]) = budget)
                => included >= 1

\* The template's system text is at the start of the message and the user
\* text follows it.
BeginsWithSystemText(message, template, query) ==
    /\ Len(message) >= Len(template.systemMessage)
    /\ SubSeq(message, 1, Len(template.systemMessage)) = template.systemMessage
    /\ Contains(SubSeq(message, Len(template.systemMessage) + 1, Len(message)),
                query)

\* C22: when supportsSystemMessage is false or modelCapabilities is absent,
\* buildPrompt returns no systemMessage and a userMessage that begins with
\* the template's system text followed by the user text; when it is true,
\* systemMessage is the system text and userMessage does not contain it.
C22_SystemTextPlacement ==
    promptResult # Null =>
        LET capabilities == promptResult.context.modelCapabilities
            result == promptResult.result
        IN IF capabilities # Null /\ capabilities.supportsSystemMessage
           THEN /\ "systemMessage" \in DOMAIN result
                /\ result.systemMessage = promptTemplate.systemMessage
                /\ ~Contains(result.userMessage, promptTemplate.systemMessage)
           ELSE /\ "systemMessage" \notin DOMAIN result
                /\ BeginsWithSystemText(result.userMessage, promptTemplate,
                                        promptResult.context.query)

----------------------------------------------------------------------------
(* Claims about ContextRanker, checked under SpecRanker.                   *)

\* C23: for rankItems with minScore > 0, when scoreFn answers 0 for every
\* factor of every item, every score is 0 and the returned list is empty.
C23_AllZeroFactorsRankEmpty ==
    (/\ lastCall # Null
     /\ lastCall.op = "rankItems"
     /\ lastCall.options.minScore.num > 0
     /\ \A i \in DOMAIN lastCall.factors :
            /\ lastCall.factors[i].tfIdfScore = 0
            /\ lastCall.factors[i].fuzzyScore = 0
            /\ lastCall.factors[i].proximityScore = 0
            /\ lastCall.factors[i].semanticScore = 0
            /\ lastCall.factors[i].astRelevance = 0)
        => lastCall.result = <<>>

----------------------------------------------------------------------------
(* Claims about normalizeTfIdfScores, checked under SpecNormalize.         *)

\* p pairs each entry of the result with an entry of the input of the same
\* key, no input entry twice.
PairsResultWithInput(p, result, scores) ==
    /\ \A i, j \in DOMAIN p : p[i] = p[j] => i = j
    /\ \A i \in DOMAIN p : result[i].key = scores[p[i]].key

\* a / b = c / d for scores with b and d not 0, and both 0 otherwise.
SameRatio(a, b, c, d) ==
    a.num * b.den * c.den * d.num = c.num * d.den * a.den * b.num

\* C24: normalizeTfIdfScores returns the entries it was given sorted by
\* descending score, every score in [0, 1], the first one exactly 1 when
\* some given score is positive, and the ratios between the given scores
\* kept; for an empty list it returns an empty list.
C24_NormalizedSortedInUnitInterval ==
    (lastCall # Null /\ lastCall.op = "normalizeTfIdfScores") =>
        LET scores == lastCall.scores
            result == lastCall.result
            n == Len(scores)
        IN /\ Len(result) = n
           /\ \A i, j \in 1..n :
                  i < j => ScoreGeq(result[i].score, result[j].score)
           /\ \A i \in 1..n :
                  /\ ScoreGeq(result[i].score, Score(0, 1))
                  /\ ScoreGeq(Score(1, 1), result[i].score)
           /\ (\E i \in 1..n : scores[i].score.num > 0)
                => result[1].score = Score(1, 1)
           /\ \E p \in [1..n -> 1..n] :
                  /\ PairsResultWithInput(p, result, scores)
                  /\ \A i, j \in 1..n :
                         SameRatio(result[i].score, result[j].score,
                                   scores[p[i]].score, scores[p[j]].score)
                  /\ \A i \in 1..n :
                         (scores[p[i]].score.num = 0) = (result[i].score.num = 0)

\* A list given in ascending order with two different positive scores: the
\* result starts with the larger one at 1 and the smaller one is below 1.
C24_Witness ==
    /\ lastCall # Null
    /\ lastCall.op = "normalizeTfIdfScores"
    /\ Len(lastCall.scores) = 2
    /\ lastCall.scores[1].score = Score(1, 1)
    /\ lastCall.scores[2].score = Score(3, 1)
    /\ lastCall.result[1].score = Score(1, 1)
    /\ lastCall.result[1].key = lastCall.scores[2].key
    /\ lastCall.result[2].score = Score(1, 3)

----------------------------------------------------------------------------
(* Claims about TfIdfCalculator.calculateScores, checked under             *)
(* SpecIndexing.                                                           *)

\* Score b adds something to score a: a term a lacks, or more of one.
Exceeds(b, a) ==
    \E idf \in DOMAIN b : idf \notin DOMAIN a \/ b[idf] > a[idf]

\* The positive similarity scores of the chunks of document key.
ChunkScoresOf(key, query) ==
    LET chunks == MapGet(tfDocuments, key).chunks
    IN { s \in { computeSimilarityScore(Calc, chunks[i],
                                        computeEmbedding(Calc, query)) :
                     i \in 1..Len(chunks) } : ScorePositive(s) }

\* C25: calculateScores returns at most one entry per document key, the
\* score of the entry is the maximum of the similarity scores of the
\* document's chunks, and a document none of whose chunks has a query term
\* has no entry.
C25_OneEntryPerDocumentWithMaxScore ==
    (outcome.op = "calculateScores" /\ ~outcome.atStart) =>
        LET result == outcome.result.value
        IN /\ \A i, j \in DOMAIN result :
                  result[i].key = result[j].key => i = j
           /\ \A i \in DOMAIN result :
                  /\ MapHas(tfDocuments, result[i].key)
                  /\ \A s \in ChunkScoresOf(result[i].key, outcome.query) :
                         ~Exceeds(s, result[i].score)
           /\ \A key \in MapKeys(tfDocuments) :
                  ChunkScoresOf(key, outcome.query) = {}
                      => \A i \in DOMAIN result : result[i].key # key

----------------------------------------------------------------------------
(* Claims about the chunking strategies, checked under SpecChunking.       *)

\* C26: for FixedSize and Semantic, chunk(content) with content.length <=
\* maxChunkSize, empty and whitespace-only content included, returns
\* exactly one chunk, and no chunk of any content has empty content.
C26_ShortContentOneChunkNoneEmpty ==
    lastCall # Null =>
        /\ (lastCall.returned
              /\ Len(lastCall.content) <= lastCall.options.maxChunkSize)
               => Len(lastCall.chunks) = 1
        /\ \A i \in DOMAIN lastCall.chunks : lastCall.chunks[i].content # <<>>

\* C27: every chunk of FixedSizeChunkingStrategy.chunk has a content of at
\* most maxChunkSize characters, for every content, minChunkSize and
\* overlap.
C27_FixedSizeChunksWithinMax ==
    (lastCall # Null /\ lastCall.op = "fixedSize") =>
        \A i \in DOMAIN lastCall.chunks :
            Len(lastCall.chunks[i].content) <= lastCall.options.maxChunkSize

\* C28: for content longer than maxChunkSize and 0 <= overlap <
\* minChunkSize <= maxChunkSize, every pass through the loop of
\* FixedSizeChunkingStrategy.chunk moves the start position forward, until
\* the end of the content is reached and the call returns.
C28_FixedSizeLoopAdvances ==
    [][(/\ lastCall # Null
        /\ lastCall.op = "fixedSize"
        /\ lastCall' # lastCall
        /\ Len(lastCall.content) > lastCall.options.maxChunkSize
        /\ 0 <= lastCall.options.overlap
        /\ lastCall.options.overlap < lastCall.options.minChunkSize
        /\ lastCall.options.minChunkSize <= lastCall.options.maxChunkSize)
          => \/ lastCall'.returned
             \/ lastCall'.currentPosition > lastCall.currentPosition]_vars

\* C29: when the parser throws, or the extraction of the chunks throws,
\* and the token is never cancelled, ASTChunkingStrategy.chunk returns
\* exactly one chunk, whose content is the whole input and whose
\* metadata.fallback is true, whatever metadata the caller gave.
C29_FailureGivesOneFallbackChunk ==
    (/\ lastCall # Null
     /\ lastCall.op = "astChunk"
     /\ lastCall.cancelled = "never"
     /\ lastCall.parsed \in {"parseThrows", "walkThrows"})
        => /\ Len(lastCall.chunks) = 1
           /\ lastCall.chunks[1].content = lastCall.content
           /\ lastCall.chunks[1].metadata.fallback = TRUE

\* The extraction threw on a content of two lines whose caller gave a
\* fallback key of its own.
C29_Witness ==
    /\ lastCall # Null
    /\ lastCall.op = "astChunk"
    /\ lastCall.cancelled = "never"
    /\ lastCall.parsed = "walkThrows"
    /\ lastCall.content = <<"a", "\n", "a">>
    /\ lastCall.metadata = [fallback |-> FALSE]
    /\ Len(lastCall.chunks) = 1

\* C30: every list getAllContextSnippets returns, freshly gathered or
\* served from the cache, is sorted by non-increasing relevance, has at
\* most maxSnippets entries, and holds only snippets whose relevance is at
\* least minRelevance.
C30_ReturnedSortedCappedAndRelevant ==
    (gathered # Null /\ gathered.op = "getAllContextSnippets") =>
        /\ \A i \in 1..(Len(gathered.result) - 1) :
               ScoreGeq(gathered.result[i].relevance,
                        gathered.result[i + 1].relevance)
        /\ Len(gathered.result) <= gathererOptions.maxSnippets
        /\ \A i \in DOMAIN gathered.result :
               ScoreGeq(gathered.result[i].relevance,
                        gathererOptions.minRelevance)

\* The part of C30 the code keeps: the returned list is sorted, and a list
\* that was freshly gathered has at most maxSnippets entries.
C30_SortedAndFreshCapped ==
    (gathered # Null /\ gathered.op = "getAllContextSnippets") =>
        /\ \A i \in 1..(Len(gathered.result) - 1) :
               ScoreGeq(gathered.result[i].relevance,
                        gathered.result[i + 1].relevance)
        /\ ~gathered.fromCache
               => Len(gathered.result) <= gathererOptions.maxSnippets

\* C30 for a gatherer built with the default options.
C30_HoldsForDefaultOptions ==
    (gathered # Null /\ gathered.op = "getAllContextSnippets"
       /\ gathererOptions = GathererDefaults)
        => /\ Len(gathered.result) <= gathererOptions.maxSnippets
           /\ \A i \in DOMAIN gathered.result :
                  ScoreGeq(gathered.result[i].relevance,
                           gathererOptions.minRelevance)

\* C31: getAllContextSnippets called with a token that is never cancelled
\* returns the Exact, Nearby and Parent snippets of the model and position
\* it is given, sorted and cut to maxSnippets, whatever calls came before.
C31_UncancelledGatherIgnoresHistory ==
    (/\ gathered # Null
     /\ gathered.op = "getAllContextSnippets"
     /\ gathered.cancelled = "never")
        => gathered.result = gatherAll(gathererOptions, gathered.model,
                                       gathered.pos, FALSE, FALSE)

\* C31 for the calls that find nothing cached under their key.
C31_HoldsWhenNothingCached ==
    (/\ gathered # Null
     /\ gathered.op = "getAllContextSnippets"
     /\ gathered.cancelled = "never"
     /\ ~gathered.fromCache)
        => gathered.result = gatherAll(gathererOptions, gathered.model,
                                       gathered.pos, FALSE, FALSE)

\* C32: the parent of every registered context is registered, so that
\* every context reached from a registered one along the parent links is
\* registered; and a getValue on a registered context is never answered
\* by a context that was disposed.
C32_ParentsOfRegisteredAreRegistered ==
    /\ \A id \in contexts :
           contextParent[id] # 0 => contextParent[id] \in contexts
    /\ (ctxResult.op = "getValue" /\ ctxResult.contextId \in contexts
          /\ ctxResult.result # Undefined)
         => LET path == PathToRoot(ctxResult.contextId)
                holders == {i \in 1..Len(path) :
                               ctxResult.key \in DOMAIN contextValue[path[i]]}
                nearest == CHOOSE i \in holders : \A j \in holders : i <= j
            IN path[nearest] \in contexts

\* C33: once cancel() has been called on a source, every token read from
\* that source, before the call or after it, also after a dispose(),
\* reports isCancellationRequested = true; and no token goes from true
\* back to false.
C33_CancelledForEverAndForAll ==
    /\ [](\A s \in Sources :
              cancelCalled[s] =>
                  \A tok \in obtained[s] :
                      isCancellationRequested(tokenIsCancelled, tok))
    /\ [][\A s \in Sources : \A tok \in obtained[s] :
              isCancellationRequested(tokenIsCancelled, tok)
                  => isCancellationRequested(tokenIsCancelled', tok)]_vars

\* The part of C33 the code keeps: no token goes from true back to false.
C33_NoTokenGoesBackToFalse ==
    [][\A s \in Sources : \A tok \in obtained[s] :
           isCancellationRequested(tokenIsCancelled, tok)
               => isCancellationRequested(tokenIsCancelled', tok)]_vars

\* C33 for the sources dispose() was never called on: their _token is
\* never CancellationToken.None.
C33_HoldsWithoutDispose ==
    \A s \in Sources :
        (cancelCalled[s] /\ sourceToken[s] # TokenNone) =>
            \A tok \in obtained[s] :
                tok # TokenNone => isCancellationRequested(tokenIsCancelled, tok)

\* C34: a get(k) that returns a value returns one whose entry was set at
\* most policy.maxAge ago, whatever calls and however much time came
\* between the set and the get.
C34_GetReturnsNothingExpired ==
    [][(/\ CacheStep("get")
        /\ cacheResult'.result # Undefined
        /\ cacheResult'.key \in DOMAIN cacheSetAt)
          => cacheNow - cacheSetAt[cacheResult'.key] <= cacheConfig.maxAge]_vars

\* C35: when buildPrompt reports includedSnippets = n > 0, the content of
\* each of the n most relevant snippets is part of the returned
\* userMessage, with the default template and with a custom one.
C35_IncludedSnippetsAreInUserMessage ==
    (promptResult # Null /\ promptResult.result.metadata.includedSnippets > 0)
        => LET sorted == ByDescendingRelevance(promptResult.context.codeSnippets)
           IN \A i \in 1..promptResult.result.metadata.includedSnippets :
                  Contains(promptResult.result.userMessage, sorted[i].content)

\* C35 for a template whose user message has a place for the context.
C35_HoldsWithContextPlaceholder ==
    (/\ promptResult # Null
     /\ promptResult.result.metadata.includedSnippets > 0
     /\ \E i \in DOMAIN promptTemplate.userMessageTemplate :
            promptTemplate.userMessageTemplate[i] = "{{context}}")
        => LET sorted == ByDescendingRelevance(promptResult.context.codeSnippets)
           IN \A i \in 1..promptResult.result.metadata.includedSnippets :
                  Contains(promptResult.result.userMessage, sorted[i].content)

----------------------------------------------------------------------------
(* Claims about LazyValue, checked under SpecLazy.                         *)

\* The get() calls that have settled with a value.
LoadedGets ==
    {c \in LazyCalls : /\ lazyCalls[c].pc = "settled"
                       /\ lazyCalls[c].kind = "get"
                       /\ lazyCalls[c].outcome \notin {Undefined, LoadFailed}}

\* C36 as stated: while invalidate() has not been called, loadFn has been
\* invoked at most once, and all get() calls have resolved to the same
\* value.
C36_LoadFnInvokedAtMostOnce ==
    ~lazyInvalidated =>
        /\ Len(lazyLoads) <= 1
        /\ \A c, d \in LoadedGets : lazyCalls[c].outcome = lazyCalls[d].outcome

\* C36, amended: loadFn is invoked only when no load is in flight and no
\* value is held, so that, while invalidate() has not been called, it is
\* invoked again only after every earlier invocation failed or resolved to
\* undefined; and every get() that waited for a load settles with what
\* that load settled with, so that the calls that overlap one load share
\* its value.
C36_OneLoadInFlightSharedByAll ==
    /\ [][Len(lazyLoads') > Len(lazyLoads)
            => /\ lazyLoading = Null
               /\ lazyValue = Undefined
               /\ ~lazyInvalidated
                    => \A p \in DOMAIN lazyLoads :
                           lazyLoads[p] \in {Undefined, LoadFailed}]_vars
    /\ [](\A c \in LazyCalls :
              (/\ lazyCalls[c].pc = "settled"
               /\ lazyCalls[c].kind = "get"
               /\ "promise" \in DOMAIN lazyCalls[c])
                 => lazyCalls[c].outcome = lazyLoads[lazyCalls[c].promise])
    /\ [](~lazyInvalidated =>
              \A c, d \in LoadedGets : lazyCalls[c].outcome = lazyCalls[d].outcome)

\* Two get() calls and a load() overlapped the one load that was made; the
\* two get() calls resolved to its value.
C36_Witness ==
    /\ ~lazyInvalidated
    /\ Len(lazyLoads) = 1
    /\ lazyLoads[1] = [value |-> 2]
    /\ lazyCalls[1].pc = "settled" /\ lazyCalls[1].kind = "get"
    /\ lazyCalls[2].pc = "settled" /\ lazyCalls[2].kind = "get"
    /\ "promise" \in DOMAIN lazyCalls[1] /\ "promise" \in DOMAIN lazyCalls[2]
    /\ lazyCalls[1].outcome = [value |-> 2]
    /\ lazyCalls[2].outcome = [value |-> 2]
    /\ lazyCalls[3].pc = "settled" /\ lazyCalls[3].kind = "load"

\* C37: when the promise of a load() call resolves and no invocation of
\* loadFn has failed, isLoaded() is true at that moment, also when the
\* load() was called while another call's load was in flight.
C37_LoadedWhenLoadResolves ==
    \A c \in LazyCalls :
        (/\ lazyCalls[c].pc = "settled"
         /\ lazyCalls[c].kind = "load"
         /\ lazyCalls[c].outcome # LoadFailed
         /\ \A p \in DOMAIN lazyLoads : lazyLoads[p] # LoadFailed)
            => lazyCalls[c].loaded

\* C37 for the load() calls that started the load themselves, when the
\* load yields a value other than undefined.
C37_HoldsForTheCallThatLoads ==
    \A c \in LazyCalls :
        (/\ lazyCalls[c].pc = "settled"
         /\ lazyCalls[c].kind = "load"
         /\ "promise" \in DOMAIN lazyCalls[c]
         /\ lazyLoads[lazyCalls[c].promise] \notin {LoadFailed, Undefined})
            => lazyCalls[c].loaded

----------------------------------------------------------------------------
(* Claims about ParallelExecutor, checked under SpecExecutor.              *)

\* C38: in every interleaving of execute calls and task completions, the
\* tasks that were started and whose wrapper has not finished (and so the
\* tasks that were started and have not yet settled) are never more than
\* the concurrency, and the tasks are started in the order of their
\* execute calls.
C38_AtMostConcurrencyStartedInOrder ==
    peConcurrency # Null =>
        /\ Cardinality({t \in Tasks : peTasks[t] \in {"started", "settled"}})
               <= peConcurrency.value
        /\ Cardinality({t \in Tasks : peTasks[t] \in {"started", "settled"}})
               = peRunning
        /\ Len(peStarted) <= Len(peSubmitted)
        /\ peStarted = SubSeq(peSubmitted, 1, Len(peStarted))

\* With concurrency 1 the tasks 3, 1, 2 were submitted in that order, the
\* later two while the first was running, and all three were started.
C38_Witness ==
    /\ peConcurrency = [value |-> 1]
    /\ peSubmitted = <<3, 1, 2>>
    /\ peStarted = <<3, 1, 2>>
    /\ peTasks[3] = "finished"
    /\ peTasks[1] = "finished"
    /\ peTasks[2] = "started"

----------------------------------------------------------------------------
(* Claims about BatchExecutor, checked under SpecBatchLive.                *)

\* The promise k is in a batch that was handed to batchFn.
IsFlushed(k) ==
    \E f \in DOMAIN beFlushed : k \in Range(beFlushed[f].promises)

\* C39: every promise is settled at most once; a promise whose batch has
\* come back from batchFn was settled once, with the result at the position
\* its item has in that batch, or with the batch's error; no batch handed
\* to batchFn is empty or larger than maxBatchSize; and every queued item
\* is eventually handed to batchFn, the timer firing when it is set, and
\* its promise eventually settled, batchFn's promise settling.
C39_SettledOnceByPosition ==
    /\ [](/\ \A k \in 1..NumQueued : Len(beSettlements[k]) <= 1
          /\ \A f \in DOMAIN beFlushed :
                 LET flushed == beFlushed[f]
                 IN /\ Len(flushed.batch) >= 1
                    /\ Len(flushed.batch) <= beMaxBatchSize.value
                    /\ Len(flushed.promises) = Len(flushed.batch)
                    /\ \A i \in DOMAIN flushed.promises :
                           LET k == flushed.promises[i]
                           IN /\ flushed.batch[i] = beQueued[k]
                              /\ flushed.settled = LoadPending
                                   => beSettlements[k] = <<>>
                              /\ flushed.settled = BatchFailed
                                   => beSettlements[k] = <<BatchFailed>>
                              /\ flushed.settled \notin {LoadPending, BatchFailed}
                                   => beSettlements[k]
                                        = << [value |-> flushed.settled.value[i]] >>
          /\ \A k \in 1..NumQueued :
                 ~IsFlushed(k) => beSettlements[k] = <<>>)
    /\ \A k \in 1..NumQueued :
           /\ (Len(beQueued) >= k) ~> IsFlushed(k)
           /\ (Len(beQueued) >= k) ~> (Len(beSettlements[k]) = 1)

\* With maxBatchSize 2, a first batch of two items was flushed by the
\* second queue call and came back with two results, and a second batch
\* of one item was flushed by the timer and failed.
C39_Witness ==
    /\ beMaxBatchSize = [value |-> 2]
    /\ Len(beFlushed) = 2
    /\ beFlushed[1].batch = <<"x", "y">>
    /\ beFlushed[1].settled = [value |-> <<0, 1>>]
    /\ beFlushed[2].batch = <<"x">>
    /\ beSettlements[1] = << [value |-> 0] >>
    /\ beSettlements[2] = << [value |-> 1] >>
    /\ beSettlements[3] = <<BatchFailed>>

----------------------------------------------------------------------------
(* C40                                                                     *)

\* The terms of the term index that list a document id.
TermsListing(id) ==
    {term \in DOMAIN ciTermIndex : id \in DOMAIN ciTermIndex[term].documents}

\* C40: CodeIndex keeps its indexes consistent per document id: after
\* addDocument(id, c2, ...) the term index lists id only under terms of c2
\* and an embedding, an AST or symbols are held for id only when the call
\* supplied them; after removeDocument(id) no index (document, term,
\* embedding, AST, symbol, TF-IDF) references id; and each term's
\* documentFrequency equals the number of documents listed for it.
C40_IndexesConsistentPerDocument ==
    /\ ciLast.op = "addDocument" =>
          /\ TermsListing(ciLast.id) \subseteq Range(IndexTerms(ciLast.content))
          /\ ciLast.embedding = Undefined => ciLast.id \notin DOMAIN ciEmbeddings
          /\ ciLast.ast = Undefined =>
                /\ ciLast.id \notin DOMAIN ciAstIndex
                /\ ciLast.id \notin DOMAIN ciSymbolIndex
    /\ ciLast.op = "removeDocument" =>
          /\ ciLast.id \notin DOMAIN ciDocumentIndex
          /\ TermsListing(ciLast.id) = {}
          /\ ciLast.id \notin DOMAIN ciEmbeddings
          /\ ciLast.id \notin DOMAIN ciAstIndex
          /\ ciLast.id \notin DOMAIN ciSymbolIndex
          /\ ~MapHas(ciTfIdf.documents, ciLast.id)
    /\ \A term \in DOMAIN ciTermIndex :
          ciTermIndex[term].documentFrequency =
              Cardinality(DOMAIN ciTermIndex[term].documents)

\* What the code does keep: removeDocument(id) leaves no reference to id,
\* every term's documentFrequency is the number of documents listed for it,
\* no term is kept with no document, and a document listed under a term or
\* holding an embedding, an AST or symbols is a document of the index.
C40_RemoveClearsAndFrequenciesCount ==
    /\ ciLast.op = "removeDocument" =>
          /\ ciLast.id \notin DOMAIN ciDocumentIndex
          /\ TermsListing(ciLast.id) = {}
          /\ ciLast.id \notin DOMAIN ciEmbeddings
          /\ ciLast.id \notin DOMAIN ciAstIndex
          /\ ciLast.id \notin DOMAIN ciSymbolIndex
          /\ ~MapHas(ciTfIdf.documents, ciLast.id)
    /\ \A term \in DOMAIN ciTermIndex :
          /\ ciTermIndex[term].documentFrequency =
                 Cardinality(DOMAIN ciTermIndex[term].documents)
          /\ ciTermIndex[term].documentFrequency > 0
          /\ DOMAIN ciTermIndex[term].documents \subseteq DOMAIN ciDocumentIndex
    /\ DOMAIN ciEmbeddings \cup DOMAIN ciAstIndex \cup DOMAIN ciSymbolIndex
           \subseteq DOMAIN ciDocumentIndex
    /\ MapKeys(ciTfIdf.documents) = DOMAIN ciDocumentIndex

\* The first addDocument of an id: the claim's case without an earlier
\* version of the document.
C40_HoldsForAFreshId ==
    (/\ ciLast.op = "addDocument"
     /\ TermsListing(ciLast.id) \subseteq Range(IndexTerms(ciLast.content))
     /\ ciLast.embedding = Undefined
     /\ ciLast.id \notin DOMAIN ciEmbeddings)

====
